---- MODULE Spec2Model ----
(***************************************************************************)
(* Model of the wurk monorepo tool: the process spawn coordinator          *)
(* (core/spawn/src/spawn.ts) and the version command                       *)
(* (commands/version/src/command.ts).                                      *)
(***************************************************************************)
EXTENDS Integers, Sequences, FiniteSets, TLC

(***************************************************************************)
(* Bounds.                                                                 *)
(***************************************************************************)
\* Number of spawn requests made during one run of the coordinator.
MaxOps == 3

\* Number of workspaces of the repository (besides the root).
MaxWorkspaces == 3

\* Largest major, minor or patch number of a version given as input.
MaxPart == 2

\* Largest exit code of a child process.
MaxExitCode == 2

\* Largest number of entries of the paths option of one spawn call.
MaxPaths == 2

\* Number of packages the root manifest names (dependencies and
\* wurk.commands).
MaxPlugins == 2

\* Longest text of version characters given as <strategy>.
MaxChars == 5

\* Configurations, calls of init and runs of the action of one command.
MaxConfigs == 2

MaxInits == 2

MaxRuns == 2

Ops == 1..MaxOps

\* "promises.blocking === undefined"
None == 0

VARIABLES
  \* ---- spawn coordinator (spawn.ts) ----
  opState,      \* per spawn operation: position of its promise / child process
  excl,         \* per operation: input or output is 'inherit'
  waitFor,      \* per operation: the promises handed to Promise.allSettled
  all,          \* promises.all
  blocking,     \* promises.blocking
  nreq,         \* number of spawn requests made so far
  pendingAtReq, \* history: operations requested earlier and unsettled at the request
  runningAtReq, \* history: operations whose child was running at the request
  blockAtReq    \* history: promises.blocking read by the request

VARIABLES
  \* ---- version command (commands/version/src/command.ts) ----
  strategy,     \* options.strategy as parsed: [isString, name]
  changelog,    \* the changelog flag after defaulting
  deps,         \* per workspace: the workspaces it depends on directly
  isPrivate,    \* per workspace: workspace.isPrivate
  pm,           \* the package manager of the repository (context.pm)
  selected,     \* the selection
  selectedAtStart, \* history: the selection the action was entered with
  pc,           \* position of the action callback
  sfe,          \* per workspace: position of the strategy-phase callback
  invoked,      \* per workspace: strategy functions called on it, in order
  modified,     \* per workspace: workspace.config.isModified
  verChanged,   \* per workspace: config version differs from workspace.version
  synced,       \* workspaces the sync phase has visited
  wfe,          \* per workspace: position of the write-phase callback
  gitQueried,   \* per workspace: getGit() was called
  sawDirty,     \* per workspace: git.getIsDirty() answered true
  manifestWritten,
  changelogWritten,
  status,       \* per workspace: workspace.status value
  detail,       \* per workspace: workspace.status detail
  updateArgs,   \* the update spawns made so far: [command, names], in order
  error         \* the error the action callback rejects with ("" if none)

VARIABLES
  \* ---- bump strategy (unnamed/part_002) ----
  bumpArgs,     \* the call: workspace.version, releaseType, preid
  bumpConfig    \* workspace.config after the call: version, isModified

VARIABLES
  \* ---- dependency range update (unnamed/part_001) ----
  syncArgs,     \* one dependency entry, its recorded update, the options
  syncPatch     \* the patch getUpdatePatches returns for the entry

VARIABLES
  \* ---- one child process of spawnAsync (spawn.ts 110-267) ----
  childOptions, \* cmd, allowNonZeroExitCode, logCommand, data collected
  childEvents,  \* the 'error' and 'close' events emitted so far
  childPromise, \* the promise spawnAsync returns
  childPrinted  \* what the close handler printed to stderr

VARIABLES
  \* ---- environment of the child (spawn.ts 150-163, 272-290) ----
  pathArgs,     \* default options, options and process.env of a spawn call
  childPath     \* env.PATH handed to crossSpawn

VARIABLES
  \* ---- loadCommandPlugins (core/wurk/src/command.ts 137-186) ----
  plugSource,   \* per package: where the root manifest names it
  plugKind,     \* per package: what importing it and calling its export does
  plugState,    \* per package: position of its loadCommandPlugin call
  plugLogged,   \* packages an error was logged for
  plugResult    \* the promise loadCommandPlugins returns

VARIABLES
  \* ---- run command (commands/version/src/command.ts 204-242) ----
  \* (it reads deps, selected and pm of the repository as well)
  scriptDef,    \* per workspace: what config.scripts[script] is
  runPc,        \* position of the action callback
  runCommand,   \* the local pm after the switch
  rfe,          \* per workspace: position of the forEach callback
  runSpawns,    \* per workspace: the spawn calls made for it, in order
  runError      \* the error the action rejects with ("" if none)

VARIABLES
  \* ---- <strategy> option of the version command (command.ts 53-65) ----
  parseArg,     \* the command-line text: [word, chars], read word then chars
  parseOut,     \* what parse did: [called, accepted, strategy, error]
  parseEach     \* the strategy function the action bound to "each" ("" if none)

VARIABLES
  \* ---- createCommand (core/wurk/src/command.ts 77-121) ----
  initConfig,   \* the closure variable: [defined, root, workspaces]
  initLog,      \* the configurations init was called with, in order
  cmdRuns       \* the runs of the cli action, in order: [initsBefore,
                \*   error, hookCalls, context, state]

VARIABLES
  \* ---- getUpdatePatches called again on the patched manifest ----
  syncAgain     \* result of the second call: [called, patched, range]

spawnVars == <<opState, excl, waitFor, all, blocking, nreq,
               pendingAtReq, runningAtReq, blockAtReq>>

versionVars == <<strategy, changelog, deps, isPrivate, pm, selected,
                 selectedAtStart, pc, sfe,
                 invoked, modified, verChanged, synced, wfe, gitQueried,
                 sawDirty, manifestWritten, changelogWritten, status, detail,
                 updateArgs, error>>

bumpVars == <<bumpArgs, bumpConfig>>

\* State of the functions that are called outside the two state machines.
syncVars == <<syncArgs, syncPatch>>

childVars == <<childOptions, childEvents, childPromise, childPrinted>>

pathVars == <<pathArgs, childPath>>

pluginVars == <<plugSource, plugKind, plugState, plugLogged, plugResult>>

\* State of the functions of the core package and of the run command.
runVars == <<scriptDef, runPc, runCommand, rfe, runSpawns, runError>>

parseVars == <<parseArg, parseOut, parseEach>>

cmdVars == <<initConfig, initLog, cmdRuns>>

resyncVars == <<syncAgain>>

lateVars == <<pluginVars, runVars, parseVars, cmdVars, resyncVars>>

fnVars == <<bumpVars, syncVars, childVars, pathVars, lateVars>>

vars == <<spawnVars, versionVars, fnVars>>

(***************************************************************************)
(* Spawn coordinator.                                                      *)
(*                                                                         *)
(* opState[o]:                                                             *)
(*   "idle"     spawn() not yet called for o                               *)
(*   "waiting"  spawn() returned, Promise.allSettled(...) not yet through  *)
(*   "running"  spawnAsync launched the child (crossSpawn)                 *)
(*   "resolved" / "rejected"  the promise returned by spawn() has settled  *)
(*   "done"     the finally callbacks registered by spawn() have run       *)
(***************************************************************************)
Requested(o) == opState[o] # "idle"

\* The promise returned by spawn() has settled (success or failure).
Settled(o) == opState[o] \in {"resolved", "rejected", "done"}

\* crossSpawn has been called for o.
Launched(o) == opState[o] = "running" \/ Settled(o)

\* The child process of o exists and has not closed.
Running(o) == opState[o] = "running"

\* Variant: an exclusive spawn waits like a non-exclusive one.
ExclusiveWaitsBlockingOnly == IF blocking = None THEN {} ELSE {blocking}

\* Variant: the promise is added to promises.all before it is awaited.
ExclusiveWaitsItself == all \cup {nreq + 1}

\* The iterable given to Promise.allSettled by an exclusive spawn.
ExclusiveWaitSet == all

\* Variant: a non-exclusive spawn waits like an exclusive one.
NonExclusiveWaitsAll == all

\* The iterable given to Promise.allSettled by a non-exclusive spawn;
\* an undefined entry settles at once.
NonExclusiveWaitSet == IF blocking = None THEN {} ELSE {blocking}

\* Variant: the launch callback does not wait for the awaited promises.
LaunchWithoutWaiting(o) == TRUE

\* Variant: an exclusive spawn never records itself.
BlockingNotRecorded(o, e) == blocking

\* promises.blocking after the request of o.
BlockingAfterRequest(o, e) == IF e THEN o ELSE blocking

\* spawn(cmd, args, options): everything up to "return promise" runs
\* synchronously.
Request(e) ==
  /\ nreq < MaxOps
  /\ LET o == nreq + 1 IN
     /\ nreq' = o
     /\ excl' = [excl EXCEPT ![o] = e]
     /\ waitFor' = [waitFor EXCEPT
                      ![o] = IF e THEN ExclusiveWaitSet ELSE NonExclusiveWaitSet]
     /\ blocking' = BlockingAfterRequest(o, e)
     /\ all' = all \cup {o}
     /\ opState' = [opState EXCEPT ![o] = "waiting"]
     /\ pendingAtReq' = [pendingAtReq EXCEPT
                           ![o] = {p \in Ops : Requested(p) /\ ~Settled(p)}]
     /\ runningAtReq' = [runningAtReq EXCEPT ![o] = {p \in Ops : Running(p)}]
     /\ blockAtReq' = [blockAtReq EXCEPT ![o] = blocking]
  /\ UNCHANGED <<versionVars, fnVars>>

\* The .then() callback of Promise.allSettled: every awaited promise has
\* settled, spawnAsync runs up to crossSpawn.
CanLaunch(o) == \A p \in waitFor[o] : Settled(p)

Launch(o) ==
  /\ opState[o] = "waiting"
  /\ CanLaunch(o)
  /\ opState' = [opState EXCEPT ![o] = "running"]
  /\ UNCHANGED <<excl, waitFor, all, blocking, nreq,
                 pendingAtReq, runningAtReq, blockAtReq>>
  /\ UNCHANGED <<versionVars, fnVars>>

\* cp.on('close') / cp.on('error'): the promise resolves or rejects.
Close(o, ok) ==
  /\ opState[o] = "running"
  /\ opState' = [opState EXCEPT ![o] = IF ok THEN "resolved" ELSE "rejected"]
  /\ UNCHANGED <<excl, waitFor, all, blocking, nreq,
                 pendingAtReq, runningAtReq, blockAtReq>>
  /\ UNCHANGED <<versionVars, fnVars>>

\* Variant: the finally callback clears the reference without comparing.
BlockingClearedAlways(o) == None

\* Variant: the finally callback leaves the reference as it is.
BlockingKeptAfterFinally(o) == blocking

\* promises.blocking after the first finally callback of exclusive o.
BlockingAfterFinally(o) == IF blocking = o THEN None ELSE blocking

\* The two finally callbacks registered on the promise by spawn(). Both are
\* reactions of the same promise, so they run back to back when it settles:
\* first the blocking reference is released (exclusive spawns only), then
\* the promise is deleted from promises.all.
Finally(o) ==
  /\ opState[o] \in {"resolved", "rejected"}
  /\ blocking' = IF excl[o] THEN BlockingAfterFinally(o) ELSE blocking
  /\ all' = all \ {o}
  /\ opState' = [opState EXCEPT ![o] = "done"]
  /\ UNCHANGED <<excl, waitFor, nreq, pendingAtReq, runningAtReq, blockAtReq>>
  /\ UNCHANGED <<versionVars, fnVars>>

SpawnIdle ==
  /\ opState = [o \in Ops |-> "idle"]
  /\ excl = [o \in Ops |-> FALSE]
  /\ waitFor = [o \in Ops |-> {}]
  /\ all = {}
  /\ blocking = None
  /\ nreq = 0
  /\ pendingAtReq = [o \in Ops |-> {}]
  /\ runningAtReq = [o \in Ops |-> {}]
  /\ blockAtReq = [o \in Ops |-> None]

SpawnNext ==
  \/ \E e \in BOOLEAN : Request(e)
  \/ \E o \in Ops : Launch(o)
  \/ \E o \in Ops, ok \in BOOLEAN : Close(o, ok)
  \/ \E o \in Ops : Finally(o)

(***************************************************************************)
(* Version command.                                                        *)
(***************************************************************************)
\* Workspaces in discovery order; a workspace depends only on workspaces
\* discovered before it (the link set is acyclic).
Workspaces == 1..MaxWorkspaces

STRATEGIES == {"major", "minor", "patch", "premajor", "preminor", "prepatch",
               "prerelease", "auto", "promote", "sync"}

\* Parsed values of the <strategy> option used as inputs: named strategies
\* are strings, a version number is a SemVer object.
StrategyInputs ==
  {[isString |-> TRUE, name |-> n] : n \in {"minor", "auto", "promote",
                                             "sync"}}
    \cup {[isString |-> FALSE, name |-> "2.0.0"]}

\* const { changelog = strategy === 'auto' } = options
ChangelogDefault(opt, strat) ==
  IF opt = "undefined" THEN (strat.isString /\ strat.name = "auto")
  ELSE opt = "true"

\* Variant: dispatch that sends 'promote' to the default branch.
EachWithoutPromote(strat) ==
  IF strat.isString
  THEN CASE strat.name = "auto" -> "auto"
         [] OTHER -> "bump"
  ELSE "literal"

\* The function bound to "each" by the switch on the strategy.
Each(strat) ==
  IF strat.isString
  THEN CASE strat.name = "auto" -> "auto"
         [] strat.name = "promote" -> "promote"
         [] OTHER -> "bump"
  ELSE "literal"

\* Variant: the strategy phase is entered for every strategy.
StrategyPhaseAlways(strat) == TRUE

\* if (strategy !== 'sync')
RunsStrategyPhase(strat) == ~(strat.isString /\ strat.name = "sync")

\* Direct and transitive dependencies of a workspace.
RECURSIVE TransDeps(_)
TransDeps(w) == deps[w] \cup UNION {TransDeps(d) : d \in deps[w]}

\* Selected workspaces that depend on w directly or transitively.
Dependents(w) == {a \in selected : w \in TransDeps(a)}

\* workspaces.includeDependents(): the selection closed under dependents.
IncludeDependents(sel) ==
  sel \cup {a \in Workspaces : TransDeps(a) \cap sel # {}}

\* Workspaces.forEach: a callback is scheduled once the callbacks of all
\* its selected dependencies have settled successfully.
ForEachReady(f, w) ==
  /\ w \in selected
  /\ f[w] = "idle"
  /\ \A d \in TransDeps(w) \cap selected : f[d] = "ok"

\* Workspaces.forEachIndependent: no ordering between callbacks.
ForEachIndependentReady(f, w) == w \in selected /\ f[w] = "idle"

\* Workspaces.forEach after the callback of w threw: w has failed and its
\* selected dependents are never invoked.
ForEachThrew(f, w) ==
  [a \in Workspaces |->
     IF a = w THEN "threw"
     ELSE IF a \in Dependents(w) /\ f[a] = "idle" THEN "skipped"
     ELSE f[a]]

\* Status values after the callback of w threw under forEach.
StatusThrew(f, w) ==
  [a \in Workspaces |->
     IF a = w THEN "failed"
     ELSE IF a \in Dependents(w) /\ f[a] = "idle" THEN "skipped"
     ELSE status[a]]

DetailThrew(f, w) ==
  [a \in Workspaces |->
     IF a # w /\ a \in Dependents(w) /\ f[a] = "idle"
     THEN "dependency failed" ELSE detail[a]]

\* The promise returned by forEach settles when no callback is left to run.
ForEachSettled(f) ==
  \A w \in selected : f[w] \in {"ok", "threw", "skipped"}

ForEachFailed(f) == \E w \in selected : f[w] = "threw"

\* The first error thrown is the one the traversal re-raises.
FirstError(msg) == IF error = "" THEN msg ELSE error

\* action: lines 80-94, up to the strategy phase.
Begin ==
  /\ pc = "start"
  /\ pc' = IF RunsStrategyPhase(strategy) THEN "strategy" ELSE "include"
  /\ UNCHANGED <<strategy, changelog, deps, isPrivate, pm,
                 selectedAtStart, selected, sfe,
                 invoked, modified, verChanged, synced, wfe, gitQueried,
                 sawDirty, manifestWritten, changelogWritten, status,
                 detail, updateArgs, error>>
  /\ UNCHANGED <<spawnVars, fnVars>>

\* Strategy phase callback, up to the await: a private workspace is only
\* logged, then each(workspace) is called.
StrategyStart(w) ==
  /\ pc = "strategy"
  /\ ForEachReady(sfe, w)
  /\ sfe' = [sfe EXCEPT ![w] = "running"]
  /\ invoked' = [invoked EXCEPT ![w] = Append(@, Each(strategy))]
  /\ UNCHANGED <<strategy, changelog, deps, isPrivate, pm,
                 selectedAtStart, selected, pc,
                 modified, verChanged, synced, wfe, gitQueried, sawDirty,
                 manifestWritten, changelogWritten, status, detail,
                 updateArgs, error>>
  /\ UNCHANGED <<spawnVars, fnVars>>

\* Outcomes of a strategy function: it sets a new config version, leaves
\* the config alone (bump on a workspace without version, promote of a
\* release version, ...) or throws.
StrategyOutcomes == {"changed", "unchanged", "throw"}

\* each(workspace) settles; changes.set(...) follows on success.
StrategyEnd(w, outcome) ==
  /\ sfe[w] = "running"
  /\ IF outcome = "throw"
     THEN /\ sfe' = ForEachThrew(sfe, w)
          /\ status' = StatusThrew(sfe, w)
          /\ detail' = DetailThrew(sfe, w)
          /\ error' = FirstError("strategy failed")
          /\ UNCHANGED <<modified, verChanged>>
     ELSE /\ sfe' = [sfe EXCEPT ![w] = "ok"]
          /\ modified' = [modified EXCEPT ![w] = @ \/ outcome = "changed"]
          /\ verChanged' = [verChanged EXCEPT ![w] = @ \/ outcome = "changed"]
          /\ UNCHANGED <<status, detail, error>>
  /\ UNCHANGED <<strategy, changelog, deps, isPrivate, pm,
                 selectedAtStart, selected, pc,
                 invoked, synced, wfe, gitQueried, sawDirty,
                 manifestWritten, changelogWritten, updateArgs>>
  /\ UNCHANGED <<spawnVars, fnVars>>

\* Variant: the action does not await the strategy traversal.
StrategyPhaseNotAwaited == TRUE

\* await workspaces.forEach(...) of the strategy phase has settled.
StrategyPhaseSettled == ForEachSettled(sfe)

\* Variant: a rejection of the strategy traversal is swallowed.
StrategyErrorSwallowed == FALSE

\* The awaited traversal of line 117 rejected: the action callback rejects
\* with it.
StrategyErrorRaised == ForEachFailed(sfe)

\* The strategy traversal settles: its error is re-raised, or the action
\* goes on to line 128.
StrategyFinish ==
  /\ pc = "strategy"
  /\ StrategyPhaseSettled
  /\ pc' = IF StrategyErrorRaised THEN "error" ELSE "include"
  /\ UNCHANGED <<strategy, changelog, deps, isPrivate, pm,
                 selectedAtStart, selected, sfe,
                 invoked, modified, verChanged, synced, wfe, gitQueried,
                 sawDirty, manifestWritten, changelogWritten, status,
                 detail, updateArgs, error>>
  /\ UNCHANGED <<spawnVars, fnVars>>

\* Line 128, reached once the strategy phase is over (or was not entered).
Include ==
  /\ pc = "include"
  /\ selected' = IncludeDependents(selected)
  /\ pc' = IF selected' = {} THEN "write" ELSE "sync"
  /\ UNCHANGED <<strategy, changelog, deps, isPrivate, pm,
                 selectedAtStart, sfe, invoked,
                 modified, verChanged, synced, wfe, gitQueried, sawDirty,
                 manifestWritten, changelogWritten, status, detail,
                 updateArgs, error>>
  /\ UNCHANGED <<spawnVars, fnVars>>

\* forEachSync visits the selection one workspace at a time, dependencies
\* first, ties in discovery order.
NextToSync ==
  CHOOSE w \in selected \ synced : \A v \in selected \ synced : w <= v

\* sync(workspace) can rewrite ranges only of a workspace that has local
\* dependencies.
SyncOutcomes(w) == IF deps[w] = {} THEN {FALSE} ELSE BOOLEAN

\* One callback of forEachSync (lines 129-134): sync(workspace) patches the
\* dependency ranges of the workspace or leaves its config alone.
SyncStep(patched) ==
  /\ pc = "sync"
  /\ selected \ synced # {}
  /\ LET w == NextToSync IN
     /\ patched \in SyncOutcomes(w)
     /\ modified' = [modified EXCEPT ![w] = @ \/ patched]
     /\ synced' = synced \cup {w}
     /\ pc' = IF selected \subseteq synced' THEN "write" ELSE "sync"
  /\ UNCHANGED <<strategy, changelog, deps, isPrivate, pm,
                 selectedAtStart, selected, sfe,
                 invoked, verChanged, wfe, gitQueried, sawDirty,
                 manifestWritten, changelogWritten, status, detail,
                 updateArgs, error>>
  /\ UNCHANGED <<spawnVars, fnVars>>

\* Variant: the write phase uses forEachIndependent.
WriteTraversalIndependent == "forEachIndependent"

\* The traversal of the write phase (line 139).
WriteTraversal == "forEach"

WriteReady(w) ==
  IF WriteTraversal = "forEach"
  THEN ForEachReady(wfe, w)
  ELSE ForEachIndependentReady(wfe, w)

\* Variant: the modification check is missing.
NeverSkipsWrite(w) == FALSE

\* status.set(value) without a detail argument leaves the detail as it is.
DetailAfterSet(current) == current

\* if (!workspace.config.isModified)
SkipsWrite(w) == ~modified[w]

\* Variant: the detail always names a version transition.
WriteDetailAlwaysTransition(w) == "version -> newVersion"

\* Lines 156-160: the detail set before the manifest is written.
WriteDetail(w) ==
  IF ~verChanged[w] THEN "dependency updates" ELSE "version -> newVersion"

\* Write phase callback, lines 140-148: an unmodified workspace is marked
\* skipped and the callback returns; otherwise the status is set to
\* pending and getGit() is called.
WriteEnter(w) ==
  /\ pc = "write"
  /\ WriteReady(w)
  /\ IF SkipsWrite(w)
     THEN /\ status' = [status EXCEPT ![w] = "skipped"]
          /\ detail' = [detail EXCEPT ![w] = "no modifications"]
          /\ wfe' = [wfe EXCEPT ![w] = "ok"]
          /\ UNCHANGED gitQueried
     ELSE /\ status' = [status EXCEPT ![w] = "pending"]
          /\ gitQueried' = [gitQueried EXCEPT ![w] = TRUE]
          /\ wfe' = [wfe EXCEPT ![w] = "git"]
          /\ detail' = [detail EXCEPT ![w] = DetailAfterSet(@)]
  /\ UNCHANGED <<strategy, changelog, deps, isPrivate, pm,
                 selectedAtStart, selected, pc,
                 sfe, invoked, modified, verChanged, synced, sawDirty,
                 manifestWritten, changelogWritten, updateArgs, error>>
  /\ UNCHANGED <<spawnVars, fnVars>>

\* Variant: the result of getIsDirty() is not acted on.
DirtyIgnored(dirty) == FALSE

\* if (await git?.getIsDirty()) throw ...
DirtyThrows(dirty) == dirty

\* The write traversal after the callback of w threw.
WriteThrew(w) ==
  IF WriteTraversal = "forEach"
  THEN ForEachThrew(wfe, w)
  ELSE [wfe EXCEPT ![w] = "threw"]

WriteStatusThrew(w) ==
  IF WriteTraversal = "forEach"
  THEN StatusThrew(wfe, w)
  ELSE [status EXCEPT ![w] = "failed"]

WriteDetailThrew(w) ==
  IF WriteTraversal = "forEach" THEN DetailThrew(wfe, w) ELSE detail

\* Results of lines 148-150: getGit() rejected (git is null and nothing is
\* asked), or getIsDirty() answered.
GitResults == {"null", "clean", "dirty"}

\* getGit() and getIsDirty() have settled (lines 148-162): a dirty tree
\* throws, otherwise the detail is set and writeConfig is called.
GitChecked(w, res) ==
  /\ wfe[w] = "git"
  /\ sawDirty' = [sawDirty EXCEPT ![w] = (res = "dirty")]
  /\ IF DirtyThrows(res = "dirty")
     THEN /\ wfe' = WriteThrew(w)
          /\ status' = WriteStatusThrew(w)
          /\ detail' = WriteDetailThrew(w)
          /\ error' = FirstError("versioning requires a clean git repository")
     ELSE /\ wfe' = [wfe EXCEPT ![w] = "writeConfig"]
          /\ detail' = [detail EXCEPT ![w] = WriteDetail(w)]
          /\ UNCHANGED <<status, error>>
  /\ UNCHANGED <<strategy, changelog, deps, isPrivate, pm,
                 selectedAtStart, selected, pc,
                 sfe, invoked, modified, verChanged, synced, gitQueried,
                 manifestWritten, changelogWritten, updateArgs>>
  /\ UNCHANGED <<spawnVars, fnVars>>

\* writeConfig settles (lines 162-168): the changelog is written next when
\* enabled, otherwise the status becomes success.
WriteConfigDone(w) ==
  /\ wfe[w] = "writeConfig"
  /\ manifestWritten' = [manifestWritten EXCEPT ![w] = TRUE]
  /\ IF changelog
     THEN /\ wfe' = [wfe EXCEPT ![w] = "writeChangelog"]
          /\ UNCHANGED <<status, detail>>
     ELSE /\ wfe' = [wfe EXCEPT ![w] = "ok"]
          /\ status' = [status EXCEPT ![w] = "success"]
          /\ detail' = [detail EXCEPT ![w] = DetailAfterSet(@)]
  /\ UNCHANGED <<strategy, changelog, deps, isPrivate, pm,
                 selectedAtStart, selected, pc,
                 sfe, invoked, modified, verChanged, synced, gitQueried,
                 sawDirty, changelogWritten, updateArgs, error>>
  /\ UNCHANGED <<spawnVars, fnVars>>

\* writeChangelog settles (lines 165-168).
WriteChangelogDone(w) ==
  /\ wfe[w] = "writeChangelog"
  /\ changelogWritten' = [changelogWritten EXCEPT ![w] = TRUE]
  /\ wfe' = [wfe EXCEPT ![w] = "ok"]
  /\ status' = [status EXCEPT ![w] = "success"]
  /\ detail' = [detail EXCEPT ![w] = DetailAfterSet(@)]
  /\ UNCHANGED <<strategy, changelog, deps, isPrivate, pm,
                 selectedAtStart, selected, pc,
                 sfe, invoked, modified, verChanged, synced, gitQueried,
                 sawDirty, manifestWritten, updateArgs, error>>
  /\ UNCHANGED <<spawnVars, fnVars>>

\* await workspaces.forEach(...) of the write phase has settled.
WritePhaseSettled == ForEachSettled(wfe)

\* Lines 171-173: the workspaces whose config is modified.
Updated == {w \in selected : modified[w]}

\* Lines 175-181: the command is spelled out, context.pm is not read.
UpdateSpawn == [command |-> "npm", names |-> Updated]

\* The write traversal settles (lines 169-181): its error is re-raised, or
\* 'npm update' is spawned for the updated workspaces, if any.
WriteFinish ==
  /\ pc = "write"
  /\ WritePhaseSettled
  /\ IF ForEachFailed(wfe)
     THEN /\ pc' = "error"
          /\ UNCHANGED updateArgs
     ELSE IF Updated # {}
     THEN /\ pc' = "update"
          /\ updateArgs' = Append(updateArgs, UpdateSpawn)
     ELSE /\ pc' = "done"
          /\ UNCHANGED updateArgs
  /\ UNCHANGED <<strategy, changelog, deps, isPrivate, pm,
                 selectedAtStart, selected, sfe,
                 invoked, modified, verChanged, synced, wfe, gitQueried,
                 sawDirty, manifestWritten, changelogWritten, status,
                 detail, error>>
  /\ UNCHANGED <<spawnVars, fnVars>>

\* The 'npm update' spawn settles; a rejection is the action's error.
UpdateDone(ok) ==
  /\ pc = "update"
  /\ pc' = IF ok THEN "done" ELSE "error"
  /\ error' = IF ok THEN error ELSE FirstError("npm update failed")
  /\ UNCHANGED <<strategy, changelog, deps, isPrivate, pm,
                 selectedAtStart, selected, sfe,
                 invoked, modified, verChanged, synced, wfe, gitQueried,
                 sawDirty, manifestWritten, changelogWritten, status,
                 detail, updateArgs>>
  /\ UNCHANGED <<spawnVars, fnVars>>

VersionIdle ==
  /\ strategy = [isString |-> TRUE, name |-> "sync"]
  /\ changelog = FALSE
  /\ deps = [w \in Workspaces |-> {}]
  /\ isPrivate = [w \in Workspaces |-> FALSE]
  /\ pm = "npm"
  /\ selected = {}
  /\ selectedAtStart = {}
  /\ pc = "off"
  /\ sfe = [w \in Workspaces |-> "idle"]
  /\ invoked = [w \in Workspaces |-> <<>>]
  /\ modified = [w \in Workspaces |-> FALSE]
  /\ verChanged = [w \in Workspaces |-> FALSE]
  /\ synced = {}
  /\ wfe = [w \in Workspaces |-> "idle"]
  /\ gitQueried = [w \in Workspaces |-> FALSE]
  /\ sawDirty = [w \in Workspaces |-> FALSE]
  /\ manifestWritten = [w \in Workspaces |-> FALSE]
  /\ changelogWritten = [w \in Workspaces |-> FALSE]
  /\ status = [w \in Workspaces |-> "pending"]
  /\ detail = [w \in Workspaces |-> ""]
  /\ updateArgs = <<>>
  /\ error = ""

\* Values of the --changelog / --no-changelog option pair.
ChangelogOptions == {"undefined", "true", "false"}

\* Command lines of the version command: a bump or a plain sync, with every
\* changelog option.
VersionInputs ==
  {<<[isString |-> TRUE, name |-> n], opt>> :
     n \in {"minor", "sync"}, opt \in ChangelogOptions}

\* Command lines naming each kind of strategy, changelog option not given.
DispatchInputs == {<<strat, "undefined">> : strat \in StrategyInputs}

\* The state in which the action callback of the version command is
\* entered: parsed options, the workspace graph and the selection.
VersionStart(inputs) ==
  /\ \E i \in inputs :
       /\ strategy = i[1]
       /\ changelog = ChangelogDefault(i[2], i[1])
  /\ deps \in {d \in [Workspaces -> SUBSET Workspaces] :
                 \A w \in Workspaces : \A v \in d[w] : v < w}
  /\ selected \in SUBSET Workspaces
  /\ selectedAtStart = selected
  /\ pc = "start"
  /\ sfe = [w \in Workspaces |-> "idle"]
  /\ invoked = [w \in Workspaces |-> <<>>]
  /\ modified = [w \in Workspaces |-> FALSE]
  /\ verChanged = [w \in Workspaces |-> FALSE]
  /\ synced = {}
  /\ wfe = [w \in Workspaces |-> "idle"]
  /\ gitQueried = [w \in Workspaces |-> FALSE]
  /\ sawDirty = [w \in Workspaces |-> FALSE]
  /\ manifestWritten = [w \in Workspaces |-> FALSE]
  /\ changelogWritten = [w \in Workspaces |-> FALSE]
  /\ status = [w \in Workspaces |-> "pending"]
  /\ detail = [w \in Workspaces |-> ""]
  /\ updateArgs = <<>>
  /\ error = ""

VersionNext ==
  \/ Begin
  \/ \E w \in Workspaces : StrategyStart(w)
  \/ \E w \in Workspaces, outcome \in StrategyOutcomes : StrategyEnd(w, outcome)
  \/ StrategyFinish
  \/ Include
  \/ \E patched \in BOOLEAN : SyncStep(patched)
  \/ \E w \in Workspaces : WriteEnter(w)
  \/ \E w \in Workspaces, res \in GitResults : GitChecked(w, res)
  \/ \E w \in Workspaces : WriteConfigDone(w)
  \/ \E w \in Workspaces : WriteChangelogDone(w)
  \/ WriteFinish
  \/ \E ok \in BOOLEAN : UpdateDone(ok)

(***************************************************************************)
(* bump strategy (unnamed/part_002) and the semver increment it calls.     *)
(*                                                                         *)
(* A version is [major, minor, patch, pre]; pre is the sequence of         *)
(* prerelease identifiers, each [s, n]: a numeric identifier has s = ""    *)
(* and its value in n, an alphanumeric identifier has its text in s and    *)
(* n = -1.                                                                 *)
(***************************************************************************)
Num(n) == [s |-> "", n |-> n]

Str(t) == [s |-> t, n |-> -1]

IsNum(id) == id.s = ""

\* workspace.version is undefined or the empty string.
NoVersion == [major |-> -1, minor |-> -1, patch |-> -1, pre |-> <<>>]

\* "!version" is false.
HasVersion(v) == v.major >= 0

ReleaseTypes == {"major", "minor", "patch", "premajor", "preminor",
                 "prepatch", "prerelease"}

\* Index of the last numeric identifier of a prerelease, 0 if there is none.
LastNumeric(pre) ==
  IF \E i \in 1..Len(pre) : IsNum(pre[i])
  THEN CHOOSE i \in 1..Len(pre) :
         IsNum(pre[i]) /\ \A j \in (i + 1)..Len(pre) : ~IsNum(pre[j])
  ELSE 0

\* SemVer.inc('pre', identifier): the last numeric identifier is
\* incremented, or 0 is appended; a given identifier then replaces the
\* prerelease unless it is already its first identifier and a number
\* follows.
IncPre(v, preid) ==
  LET i == LastNumeric(v.pre)
      counted == IF v.pre = <<>> THEN <<Num(0)>>
                 ELSE IF i = 0 THEN Append(v.pre, Num(0))
                 ELSE [v.pre EXCEPT ![i] = Num(@.n + 1)]
      keeps == /\ counted[1] = Str(preid)
               /\ Len(counted) >= 2
               /\ IsNum(counted[2])
  IN [v EXCEPT !.pre = IF preid = "" \/ keeps
                       THEN counted
                       ELSE <<Str(preid), Num(0)>>]

\* SemVer.inc('patch').
IncPatch(v) ==
  [v EXCEPT !.patch = IF v.pre = <<>> THEN @ + 1 ELSE @, !.pre = <<>>]

\* SemVer.inc(releaseType, preid).
SemVerInc(v, releaseType, preid) ==
  CASE releaseType = "major" ->
         [major |-> IF v.minor # 0 \/ v.patch # 0 \/ v.pre = <<>>
                    THEN v.major + 1 ELSE v.major,
          minor |-> 0, patch |-> 0, pre |-> <<>>]
    [] releaseType = "minor" ->
         [major |-> v.major,
          minor |-> IF v.patch # 0 \/ v.pre = <<>>
                    THEN v.minor + 1 ELSE v.minor,
          patch |-> 0, pre |-> <<>>]
    [] releaseType = "patch" -> IncPatch(v)
    [] releaseType = "premajor" ->
         IncPre([major |-> v.major + 1, minor |-> 0, patch |-> 0,
                 pre |-> <<>>], preid)
    [] releaseType = "preminor" ->
         IncPre([major |-> v.major, minor |-> v.minor + 1, patch |-> 0,
                 pre |-> <<>>], preid)
    [] releaseType = "prepatch" ->
         IncPre(IncPatch([v EXCEPT !.pre = <<>>]), preid)
    [] releaseType = "prerelease" ->
         IncPre(IF v.pre = <<>> THEN IncPatch(v) ELSE v, preid)

\* Variant: the version check is missing and a workspace without version
\* counts as 0.0.0.
BumpWithoutVersionCheck(version, releaseType, preid) ==
  [version |-> SemVerInc(IF HasVersion(version) THEN version
                         ELSE [major |-> 0, minor |-> 0, patch |-> 0,
                               pre |-> <<>>],
                         releaseType, preid),
   isModified |-> TRUE]

\* bump(workspace, {releaseType, preid}): the config of the workspace after
\* the call (it starts unmodified, with the workspace's version).
Bump(version, releaseType, preid) ==
  IF ~HasVersion(version)
  THEN [version |-> version, isModified |-> FALSE]
  ELSE [version |-> SemVerInc(version, releaseType, preid),
        isModified |-> TRUE]

\* Prereleases of the versions given as input.
PreInputs == {<<>>, <<Num(0)>>, <<Str("beta")>>, <<Str("beta"), Num(0)>>,
              <<Str("alpha"), Num(1)>>, <<Str("beta"), Str("x")>>}

VersionValues ==
  [major : 0..MaxPart, minor : 0..MaxPart, patch : 0..MaxPart,
   pre : PreInputs]

\* options.preid: "" stands for undefined.
Preids == {"", "alpha", "beta"}

BumpIdle ==
  /\ bumpArgs = [version |-> NoVersion, releaseType |-> "patch", preid |-> ""]
  /\ bumpConfig = [called |-> FALSE, version |-> NoVersion,
                   isModified |-> FALSE]

\* A workspace with or without version, its config unmodified.
BumpStart ==
  /\ bumpArgs \in [version : VersionValues \cup {NoVersion},
                   releaseType : ReleaseTypes, preid : Preids]
  /\ bumpConfig = [called |-> FALSE, version |-> bumpArgs.version,
                   isModified |-> FALSE]

BumpCall ==
  /\ ~bumpConfig.called
  /\ LET c == Bump(bumpArgs.version, bumpArgs.releaseType, bumpArgs.preid)
     IN bumpConfig' = [called |-> TRUE, version |-> c.version,
                       isModified |-> c.isModified]
  /\ UNCHANGED bumpArgs
  /\ UNCHANGED <<spawnVars, versionVars, syncVars, childVars, pathVars,
               lateVars>>

BumpNext == BumpCall

(***************************************************************************)
(* getUpdatePatches (unnamed/part_001), for one entry [depName, depRange]  *)
(* of one dependency scope; the loops of lines 25-26 take every entry      *)
(* through the same steps.                                                 *)
(*                                                                         *)
(* A dependency range is [kind, op, ver, parts]:                           *)
(*   "simple"   op followed by a version of 1, 2 or 3 numbers, op one of   *)
(*              "", "=", "^", "~", ">", ">=" (the ranges the expression    *)
(*              of line 39 matches); unwritten numbers are 0 in ver        *)
(*   "lt"       "<" followed by a full version: a range semver accepts     *)
(*              and line 39 does not match                                 *)
(*   "invalid"  a text semver does not accept as a range ("latest",        *)
(*              "workspace:^", a URL)                                      *)
(*   "star", "x", "file"   the ranges of line 37                           *)
(*   "build"    op followed by a full version with build metadata          *)
(*              ("~1.1.0+b"): a range semver accepts, reading it as the    *)
(*              version without the metadata, and line 39 does not match   *)
(* Versions in ranges and updates are release versions.                    *)
(***************************************************************************)
Release(major, minor, patch) ==
  [major |-> major, minor |-> minor, patch |-> patch, pre |-> <<>>]

ReleaseVersions == {v \in VersionValues : v.pre = <<>>}

\* A version with build metadata ("1.1.0+b"): semver compares it as the
\* version without the metadata.
WithBuild(v) ==
  [major |-> v.major, minor |-> v.minor, patch |-> v.patch, pre |-> <<>>,
   build |-> "b"]

HasBuild(v) == "build" \in DOMAIN v

BuildVersions == {WithBuild(v) : v \in ReleaseVersions}

Operators == {"", "=", "^", "~", ">", ">="}

SimpleRange(op, ver, parts) ==
  [kind |-> "simple", op |-> op, ver |-> ver, parts |-> parts]

OtherRange(kind) ==
  [kind |-> kind, op |-> "", ver |-> Release(0, 0, 0), parts |-> 0]

Ranges ==
  {SimpleRange(op, v, 3) : op \in Operators, v \in ReleaseVersions}
    \cup {SimpleRange(op, v, 2) :
            op \in Operators, v \in {u \in ReleaseVersions : u.patch = 0}}
    \cup {SimpleRange(op, v, 1) :
            op \in Operators,
            v \in {u \in ReleaseVersions : u.minor = 0 /\ u.patch = 0}}
    \cup {[kind |-> "lt", op |-> "<", ver |-> v, parts |-> 3] :
            v \in ReleaseVersions}
    \cup {OtherRange(k) : k \in {"invalid", "star", "x", "file"}}

\* semver precedence of release versions.
Before(a, b) ==
  \/ a.major < b.major
  \/ a.major = b.major /\ a.minor < b.minor
  \/ a.major = b.major /\ a.minor = b.minor /\ a.patch < b.patch

\* The versions a range admits, as semver.Range reads it: from lo on, and
\* before hi unless the range is open.
Interval(r) ==
  LET v == Release(r.ver.major, r.ver.minor, r.ver.patch)
      nextMajor == Release(v.major + 1, 0, 0)
      nextMinor == Release(v.major, v.minor + 1, 0)
      nextPatch == Release(v.major, v.minor, v.patch + 1)
      xRange == IF r.parts = 1 THEN nextMajor
                ELSE IF r.parts = 2 THEN nextMinor ELSE nextPatch
      comparator == r.kind \in {"simple", "build"}
  IN CASE comparator /\ r.op \in {"", "="} ->
            [lo |-> v, hi |-> xRange, open |-> FALSE]
       [] comparator /\ r.op = "^" ->
            [lo |-> v,
             hi |-> IF v.major > 0 \/ r.parts = 1 THEN nextMajor
                    ELSE IF v.minor > 0 \/ r.parts = 2 THEN nextMinor
                    ELSE nextPatch,
             open |-> FALSE]
       [] comparator /\ r.op = "~" ->
            [lo |-> v,
             hi |-> IF r.parts = 1 THEN nextMajor ELSE nextMinor,
             open |-> FALSE]
       [] comparator /\ r.op = ">" ->
            [lo |-> xRange, hi |-> v, open |-> TRUE]
       [] comparator /\ r.op = ">=" ->
            [lo |-> v, hi |-> v, open |-> TRUE]
       [] r.kind = "lt" ->
            [lo |-> Release(0, 0, 0), hi |-> v, open |-> FALSE]
       [] OTHER ->
            [lo |-> Release(0, 0, 0), hi |-> v, open |-> TRUE]

\* semver.satisfies(version, range): false for a text that is no range.
Satisfies(version, r) ==
  /\ r.kind \notin {"invalid", "file"}
  /\ ~Before(version, Interval(r).lo)
  /\ Interval(r).open \/ Before(version, Interval(r).hi)

\* semver.minVersion(range)
MinVersion(r) == Interval(r).lo

\* The range `~${minVersion(depRange)}`
TildeMin(r) == SimpleRange("~", MinVersion(r), 3)

\* Variant: every rewritten range gets the default prefix.
PrefixAlwaysCaret(depRange) == "^"

\* Line 39: the operator captured by the expression, '^' when the
\* expression does not match or captures nothing.
Prefix(depRange) ==
  IF depRange.kind = "simple" /\ depRange.op # "" THEN depRange.op ELSE "^"

\* Line 40: `${prefix}${update.version}`
NewDepRange(depRange, version) ==
  [kind |-> IF HasBuild(version) THEN "build" ELSE "simple",
   op |-> Prefix(depRange), ver |-> version, parts |-> 3]

\* Variant: the strict option is not consulted.
IgnoredEvenIfStrict(depRange, version, strict) ==
  /\ Satisfies(version, depRange)
  /\ Satisfies(version, TildeMin(depRange))

\* Line 50: the update is too small to matter.
Ignored(depRange, version, strict) ==
  /\ ~strict
  /\ Satisfies(version, depRange)
  /\ Satisfies(version, TildeMin(depRange))

\* Lines 27-56 for one entry: the range the patch holds for it, if any.
\* update is the recorded update of the dependency, NoVersion if none.
UpdatePatch(depRange, update, strict) ==
  IF ~HasVersion(update)
  THEN [patched |-> FALSE, range |-> depRange]
  ELSE IF depRange.kind \in {"star", "x", "file"}
  THEN [patched |-> FALSE, range |-> depRange]
  ELSE IF NewDepRange(depRange, update) = depRange
  THEN [patched |-> FALSE, range |-> depRange]
  ELSE IF Ignored(depRange, update, strict)
  THEN [patched |-> FALSE, range |-> depRange]
  ELSE [patched |-> TRUE, range |-> NewDepRange(depRange, update)]

SyncIdle ==
  /\ syncArgs = [depRange |-> OtherRange("star"), update |-> NoVersion,
                 strict |-> FALSE, dependentChanging |-> FALSE,
                 dependencyPrivate |-> FALSE]
  /\ syncPatch = [called |-> FALSE, patched |-> FALSE,
                  range |-> OtherRange("star")]

\* A dependency entry of a workspace, the update recorded for the
\* dependency (if any), the strict option, and two facts of the run that
\* getUpdatePatches is not given: whether the version of the dependent
\* workspace changes too, and whether the dependency is private.
SyncStart ==
  /\ syncArgs \in [depRange : Ranges,
                   update : ReleaseVersions \cup {NoVersion},
                   strict : BOOLEAN,
                   dependentChanging : BOOLEAN,
                   dependencyPrivate : BOOLEAN]
  /\ syncPatch = [called |-> FALSE, patched |-> FALSE,
                  range |-> syncArgs.depRange]

GetUpdatePatches ==
  /\ ~syncPatch.called
  /\ LET u == UpdatePatch(syncArgs.depRange, syncArgs.update, syncArgs.strict)
     IN syncPatch' = [called |-> TRUE, patched |-> u.patched,
                      range |-> u.range]
  /\ UNCHANGED syncArgs
  /\ UNCHANGED <<spawnVars, versionVars, bumpVars, childVars, pathVars,
               lateVars>>

SyncNext == GetUpdatePatches

(***************************************************************************)
(* getUpdatePatches called again after its patch was applied to the        *)
(* manifest, with the same recorded update and the same strict option.     *)
(***************************************************************************)
ResyncIdle ==
  syncAgain = [called |-> FALSE, patched |-> FALSE,
               range |-> OtherRange("star")]

\* A dependency entry, the recorded update (a release version, with or
\* without build metadata, or none) and the strict option.
ResyncStart ==
  /\ syncArgs \in [depRange : Ranges,
                   update : ReleaseVersions \cup BuildVersions
                              \cup {NoVersion},
                   strict : BOOLEAN,
                   dependentChanging : {FALSE},
                   dependencyPrivate : {FALSE}]
  /\ syncPatch = [called |-> FALSE, patched |-> FALSE,
                  range |-> syncArgs.depRange]
  /\ syncAgain = [called |-> FALSE, patched |-> FALSE,
                  range |-> syncArgs.depRange]

\* The patch of the first call is in the manifest (syncPatch.range is the
\* entry now); getUpdatePatches is called again.
GetUpdatePatchesAgain ==
  /\ syncPatch.called
  /\ ~syncAgain.called
  /\ LET u == UpdatePatch(syncPatch.range, syncArgs.update, syncArgs.strict)
     IN syncAgain' = [called |-> TRUE, patched |-> u.patched,
                      range |-> u.range]
  /\ UNCHANGED <<syncArgs, syncPatch>>
  /\ UNCHANGED <<spawnVars, versionVars, bumpVars, childVars, pathVars,
                 pluginVars, runVars, parseVars, cmdVars>>

ResyncNext == GetUpdatePatches \/ GetUpdatePatchesAgain

(***************************************************************************)
(* The child process of spawnAsync and the promise made at lines 194-266.  *)
(*                                                                         *)
(* An exit code is [null, code]; a signal code is "" for null.  The child  *)
(* emits 'close' once, after 'exit' or after the 'error' of a failed       *)
(* launch.                                                                 *)
(***************************************************************************)
NullCode == [null |-> TRUE, code |-> 0]

Code(n) == [null |-> FALSE, code |-> n]

\* The exit code and signal a child that ran can close with.
CloseCodes ==
  {<<Code(n), "">> : n \in 0..MaxExitCode}
    \cup {<<NullCode, sig>> : sig \in {"SIGTERM", "SIGKILL"}}

\* The close that follows a failed launch carries the negative errno.
FailedLaunchCodes == {<<Code(-2), "">>, <<Code(-13), "">>}

ErrorCodes == {"ENOENT", "EACCES"}

\* The promise before it settles.
Pending ==
  [state |-> "pending", kind |-> "", cmd |-> "", exitCode |-> 0,
   signalCode |-> "", ok |-> FALSE]

\* A promise settles once: resolve and reject on a settled promise do
\* nothing.
Settle(promise, outcome) ==
  IF promise.state = "pending" THEN outcome ELSE promise

\* Line 206: exitCode ??= 1
ExitCodeOrOne(exitCode) == IF exitCode.null THEN 1 ELSE exitCode.code

\* Variant: allowNonZeroExitCode is not consulted.
RejectsEvenIfAllowed(exitCode, allowNonZeroExitCode) == exitCode # 0

\* Line 208
Rejects(exitCode, allowNonZeroExitCode) ==
  exitCode # 0 /\ ~allowNonZeroExitCode

\* Lines 208-264: what the close handler settles the promise with.
CloseOutcome(options, exitCode, signalCode) ==
  IF Rejects(ExitCodeOrOne(exitCode), options.allowNonZeroExitCode)
  THEN [state |-> "rejected", kind |-> "SpawnExitCodeError",
        cmd |-> options.cmd, exitCode |-> ExitCodeOrOne(exitCode),
        signalCode |-> signalCode, ok |-> FALSE]
  ELSE [state |-> "resolved", kind |-> "SpawnResult", cmd |-> "",
        exitCode |-> ExitCodeOrOne(exitCode), signalCode |-> signalCode,
        ok |-> (ExitCodeOrOne(exitCode) = 0)]

\* Lines 209-220: the buffered output is printed before the rejection,
\* behind the command line if that was not logged at the start.
ClosePrinted(options, exitCode) ==
  IF Rejects(ExitCodeOrOne(exitCode), options.allowNonZeroExitCode)
       /\ options.data
  THEN (IF options.logCommand THEN <<>> ELSE <<"command">>) \o <<"output">>
  ELSE <<>>

\* Lines 195-201: the rejection for an 'error' event.
ErrorOutcome(options, code) ==
  [state |-> "rejected",
   kind |-> IF code = "ENOENT" THEN "is required" ELSE "error",
   cmd |-> IF code = "ENOENT" THEN options.cmd ELSE "",
   exitCode |-> 0, signalCode |-> "", ok |-> FALSE]

ChildIdle ==
  /\ childOptions = [cmd |-> "", allowNonZeroExitCode |-> FALSE,
                     logCommand |-> FALSE, data |-> FALSE]
  /\ childEvents = <<>>
  /\ childPromise = [Pending EXCEPT !.state = "none"]
  /\ childPrinted = <<>>

\* crossSpawn has returned and the handlers of lines 195 and 203 are
\* registered.
ChildStart ==
  /\ childOptions \in [cmd : {"git", "npm"}, allowNonZeroExitCode : BOOLEAN,
                       logCommand : BOOLEAN, data : BOOLEAN]
  /\ childEvents = <<>>
  /\ childPromise = Pending
  /\ childPrinted = <<>>

\* cp.on('error', ...): the launch failed.
OnError(code) ==
  /\ childPromise.state # "none"
  /\ childEvents = <<>>
  /\ childEvents' = <<[type |-> "error", code |-> code,
                       exitCode |-> NullCode, signalCode |-> ""]>>
  /\ childPromise' = Settle(childPromise, ErrorOutcome(childOptions, code))
  /\ UNCHANGED <<childOptions, childPrinted>>
  /\ UNCHANGED <<spawnVars, versionVars, bumpVars, syncVars, pathVars,
               lateVars>>

\* cp.on('close', ...)
OnClose(exitCode, signalCode) ==
  /\ childPromise.state # "none"
  /\ \A i \in DOMAIN childEvents : childEvents[i].type # "close"
  /\ <<exitCode, signalCode>> \in
       IF childEvents = <<>> THEN CloseCodes ELSE FailedLaunchCodes
  /\ childEvents' = Append(childEvents,
                           [type |-> "close", code |-> "",
                            exitCode |-> exitCode,
                            signalCode |-> signalCode])
  /\ childPromise' =
       Settle(childPromise, CloseOutcome(childOptions, exitCode, signalCode))
  /\ childPrinted' = ClosePrinted(childOptions, exitCode)
  /\ UNCHANGED childOptions
  /\ UNCHANGED <<spawnVars, versionVars, bumpVars, syncVars, pathVars,
               lateVars>>

ChildNext ==
  \/ \E code \in ErrorCodes : OnError(code)
  \/ \E c \in CloseCodes \cup FailedLaunchCodes : OnClose(c[1], c[2])

(***************************************************************************)
(* PATH of the child (spawn.ts 150-163) for a call made through            *)
(* createSpawn (272-290).                                                  *)
(*                                                                         *)
(* A text that holds paths is the sequence of its segments between         *)
(* delimiters: "" is <<>>, "/a" is <<"/a">>, "/a:/b" is <<"/a", "/b">>.   *)
(* A value that may be undefined is [defined, text].                       *)
(***************************************************************************)
Undefined == [defined |-> FALSE, text |-> <<>>]

Text(t) == [defined |-> TRUE, text |-> t]

\* Boolean(value)
Truthy(value) == value.defined /\ value.text # <<>>

\* a ?? b
Coalesce(a, b) == IF a.defined THEN a ELSE b

\* nodePath.dirname(process.execPath)
ExecDir == Text(<<"execdir">>)

\* npmRunPath({cwd, path: ''})
LocalBin(cwd) == Text(<<cwd, "node_modules/.bin">>)

\* Lines 283-286: {...defaultOptions.env, ...options?.env}
MergedEnvPath(args) == Coalesce(args.envPath, args.defaultEnvPath)

\* Line 287: [...(defaultOptions.paths ?? []), ...(options?.paths ?? [])]
MergedPaths(args) == args.defaultPaths \o args.paths

\* Variant: the paths option goes in front of the inherited PATH.
PathEntriesPathsFirst(args) ==
  <<ExecDir, LocalBin(args.cwd)>>
    \o [i \in DOMAIN MergedPaths(args) |-> Text(MergedPaths(args)[i])]
    \o <<Coalesce(MergedEnvPath(args), args.processPath)>>

\* Lines 155-160: the array the PATH is made from.
PathEntries(args) ==
  <<ExecDir, LocalBin(args.cwd),
    Coalesce(MergedEnvPath(args), args.processPath)>>
    \o [i \in DOMAIN MergedPaths(args) |-> Text(MergedPaths(args)[i])]

\* .filter(Boolean)
FilterTruthy(entries) == SelectSeq(entries, Truthy)

\* .join(nodePath.delimiter): every entry contributes its segments, an
\* empty or undefined entry an empty segment.
RECURSIVE Join(_)
Join(entries) ==
  IF entries = <<>> THEN <<>>
  ELSE (IF Truthy(Head(entries)) THEN Head(entries).text ELSE <<"">>)
         \o Join(Tail(entries))

\* env.PATH of the child, lines 155-162.
ChildPath(args) == Join(FilterTruthy(PathEntries(args)))

\* Entries of a paths option.
PathOptionEntries == {<<>>, <<"/p">>, <<"/q">>}

RECURSIVE SeqsUpTo(_, _)
SeqsUpTo(S, n) ==
  IF n = 0 THEN {<<>>}
  ELSE SeqsUpTo(S, n - 1)
         \cup {Append(q, x) : q \in SeqsUpTo(S, n - 1), x \in S}

PathIdle ==
  /\ pathArgs = [cwd |-> "", defaultPaths |-> <<>>, paths |-> <<>>,
                 defaultEnvPath |-> Undefined, envPath |-> Undefined,
                 processPath |-> Undefined]
  /\ childPath = <<>>

\* A call of the function made by createSpawn.
PathStart ==
  /\ pathArgs \in
       [cwd : {"/repo", "/repo/a"},
        defaultPaths : SeqsUpTo(PathOptionEntries, 1),
        paths : SeqsUpTo(PathOptionEntries, MaxPaths),
        defaultEnvPath : {Undefined, Text(<<"/d">>)},
        envPath : {Undefined, Text(<<>>), Text(<<"/o1", "/o2">>)},
        processPath : {Undefined, Text(<<"/usr/bin", "/bin">>)}]
  /\ childPath = <<>>

\* crossSpawn is called with the composed environment.
CrossSpawn ==
  /\ childPath = <<>>
  /\ childPath' = ChildPath(pathArgs)
  /\ UNCHANGED pathArgs
  /\ UNCHANGED <<spawnVars, versionVars, bumpVars, syncVars, childVars,
               lateVars>>

PathNext == CrossSpawn

(***************************************************************************)
(* loadCommandPlugins (core/wurk/src/command.ts 137-186).                  *)
(*                                                                         *)
(* Package ids are numbered in their sort order.                           *)
(***************************************************************************)
Packages == 1..MaxPlugins

\* Where the root manifest names a package: "other" is a dependency whose
\* name does not match the expression of line 178, "dependency" one whose
\* name matches, "explicit" an entry of wurk.commands, "both" a matching
\* dependency that is also listed in wurk.commands.
PluginSources == {"other", "dependency", "explicit", "both"}

\* What loading a package does: importRelative rejects, the default export
\* is not a function, the factory throws, the factory returns something
\* that is not a command (a promise included), or it returns a command.
PluginKinds == {"import throws", "no function", "factory throws",
                "invalid command", "valid"}

\* Lines 165-181: the package ids that are loaded, without duplicates.
Candidates == {p \in Packages : plugSource[p] # "other"}

RECURSIVE SortedSeq(_)
SortedSeq(S) ==
  IF S = {} THEN <<>>
  ELSE LET m == CHOOSE x \in S : \A y \in S : x <= y
       IN <<m>> \o SortedSeq(S \ {m})

\* Array.from(new Set([...])).sort()
PackageIds == SortedSeq(Candidates)

\* Variant: the factory is called outside the try block.
LoadOutcomeFactoryUncaught(kind) ==
  IF kind = "valid" THEN "command"
  ELSE IF kind = "factory throws" THEN "rejected" ELSE "null"

\* Lines 138-158: every failure inside the try block is logged and gives
\* null; a command is returned as it is.
LoadOutcome(kind) == IF kind = "valid" THEN "command" ELSE "null"

PluginIdle ==
  /\ plugSource = [p \in Packages |-> "other"]
  /\ plugKind = [p \in Packages |-> "valid"]
  /\ plugState = [p \in Packages |-> "off"]
  /\ plugLogged = {}
  /\ plugResult = [state |-> "none", commands |-> <<>>]

\* loadCommandPlugins has not been called yet; a package that is not
\* loaded is a valid plugin.
PluginStart ==
  /\ plugSource \in [Packages -> PluginSources]
  /\ plugKind \in [Packages -> PluginKinds]
  /\ \A p \in Packages : plugSource[p] = "other" => plugKind[p] = "valid"
  /\ plugState = [p \in Packages |-> "idle"]
  /\ plugLogged = {}
  /\ plugResult = [state |-> "none", commands |-> <<>>]

\* Lines 165-183: packageIds.map calls loadCommandPlugin for every id; each
\* call runs up to its await at line 139.
LoadCommandPlugins ==
  /\ plugResult.state = "none"
  /\ \A p \in Packages : plugState[p] = "idle"
  /\ plugState' = [p \in Packages |->
                     IF p \in Candidates THEN "importing" ELSE "idle"]
  /\ plugResult' = [state |-> "pending", commands |-> <<>>]
  /\ UNCHANGED <<plugSource, plugKind, plugLogged>>
  /\ UNCHANGED <<spawnVars, versionVars, bumpVars, syncVars, childVars,
                 pathVars, runVars, parseVars, cmdVars, resyncVars>>

\* importRelative settles for one package and the rest of
\* loadCommandPlugin runs (lines 139-158).
ImportSettled(p) ==
  /\ plugState[p] = "importing"
  /\ plugState' = [plugState EXCEPT ![p] = LoadOutcome(plugKind[p])]
  /\ plugLogged' = IF LoadOutcome(plugKind[p]) = "null"
                   THEN plugLogged \cup {p} ELSE plugLogged
  /\ UNCHANGED <<plugSource, plugKind, plugResult>>
  /\ UNCHANGED <<spawnVars, versionVars, bumpVars, syncVars, childVars,
                 pathVars, runVars, parseVars, cmdVars, resyncVars>>

IsLoadedCommand(p) == plugState[p] = "command"

\* Lines 183-185: Promise.all rejects with the first rejection, or
\* resolves when every call has; the nulls are filtered out.
PromiseAll ==
  /\ plugResult.state = "pending"
  /\ IF \E p \in Candidates : plugState[p] = "rejected"
     THEN plugResult' = [state |-> "rejected", commands |-> <<>>]
     ELSE /\ \A p \in Candidates : plugState[p] \in {"command", "null"}
          /\ plugResult' = [state |-> "resolved",
                            commands |-> SelectSeq(PackageIds,
                                                   IsLoadedCommand)]
  /\ UNCHANGED <<plugSource, plugKind, plugState, plugLogged>>
  /\ UNCHANGED <<spawnVars, versionVars, bumpVars, syncVars, childVars,
                 pathVars, runVars, parseVars, cmdVars, resyncVars>>

PluginNext ==
  \/ LoadCommandPlugins
  \/ \E p \in Packages : ImportSettled(p)
  \/ PromiseAll

(***************************************************************************)
(* run command (commands/version/src/command.ts 204-242).                  *)
(***************************************************************************)
\* The package managers of the switch at lines 211-221.
PackageManagers == {"npm", "pnpm", "yarn", "yarn-classic"}

\* Lines 211-221: the executable of a package manager.
PackageManagerCommand(p) == IF p = "yarn-classic" THEN "yarn" ELSE p

\* What the manifest of a workspace holds at scripts[script].
ScriptDefs == {"missing", "string", "not a string"}

\* Values of context.pm; "bun" stands for any value the switch does not
\* name.
PmValues == {"pnpm", "yarn-classic", "bun"}

\* Lines 216-226: the cases of the switch that do not throw.
SupportedPm(p) == p \in PackageManagers

\* Variant: the script is not looked up.
ScriptExistsAlways(w) == TRUE

\* Lines 230-232: config.at('scripts').at(script).is('string')
ScriptExists(w) == scriptDef[w] = "string"

\* Line 239: spawn(pm, ['run', '--', script, args], ...)
RunSpawn == [command |-> runCommand, args |-> <<"run", "--", "script">>]

RunIdle ==
  /\ scriptDef = [w \in Workspaces |-> "missing"]
  /\ runPc = "off"
  /\ runCommand = ""
  /\ rfe = [w \in Workspaces |-> "idle"]
  /\ runSpawns = [w \in Workspaces |-> <<>>]
  /\ runError = ""

\* The action callback of the run command is entered: the workspace graph,
\* the selection, the package manager and the manifests.
RunStart ==
  /\ deps \in {d \in [Workspaces -> SUBSET Workspaces] :
                 \A w \in Workspaces : \A v \in d[w] : v < w}
  /\ selected \in SUBSET Workspaces
  /\ pm \in PmValues
  /\ scriptDef \in [Workspaces -> ScriptDefs]
  /\ \A w \in Workspaces : w > 1 => scriptDef[w] # "not a string"
  /\ runPc = "start"
  /\ runCommand = ""
  /\ rfe = [w \in Workspaces |-> "idle"]
  /\ runSpawns = [w \in Workspaces |-> <<>>]
  /\ runError = ""

\* Lines 213-226: the switch.
RunBegin ==
  /\ runPc = "start"
  /\ IF SupportedPm(pm)
     THEN /\ runCommand' = PackageManagerCommand(pm)
          /\ runPc' = "forEach"
          /\ UNCHANGED runError
     ELSE /\ runPc' = "error"
          /\ runError' = "unsupported package manager"
          /\ UNCHANGED runCommand
  /\ UNCHANGED <<scriptDef, rfe, runSpawns>>
  /\ UNCHANGED <<spawnVars, versionVars, bumpVars, syncVars, childVars,
                 pathVars, pluginVars, parseVars, cmdVars, resyncVars>>

\* The forEach callback (lines 228-240) up to its return or its await.
RunEnter(w) ==
  /\ runPc = "forEach"
  /\ ForEachReady(rfe, w)
  /\ IF ScriptExists(w)
     THEN /\ rfe' = [rfe EXCEPT ![w] = "running"]
          /\ runSpawns' = [runSpawns EXCEPT ![w] = Append(@, RunSpawn)]
     ELSE /\ rfe' = [rfe EXCEPT ![w] = "ok"]
          /\ UNCHANGED runSpawns
  /\ UNCHANGED <<scriptDef, runPc, runCommand, runError>>
  /\ UNCHANGED <<spawnVars, versionVars, bumpVars, syncVars, childVars,
                 pathVars, pluginVars, parseVars, cmdVars, resyncVars>>

\* The spawn of line 239 settles; a rejection is thrown by the callback.
RunSpawnSettled(w, ok) ==
  /\ rfe[w] = "running"
  /\ rfe' = IF ok THEN [rfe EXCEPT ![w] = "ok"] ELSE ForEachThrew(rfe, w)
  /\ runError' = IF ok \/ runError # "" THEN runError ELSE "script failed"
  /\ UNCHANGED <<scriptDef, runPc, runCommand, runSpawns>>
  /\ UNCHANGED <<spawnVars, versionVars, bumpVars, syncVars, childVars,
                 pathVars, pluginVars, parseVars, cmdVars, resyncVars>>

\* await workspaces.forEach(...) settles (line 228).
RunFinish ==
  /\ runPc = "forEach"
  /\ ForEachSettled(rfe)
  /\ runPc' = IF ForEachFailed(rfe) THEN "error" ELSE "done"
  /\ UNCHANGED <<scriptDef, runCommand, rfe, runSpawns, runError>>
  /\ UNCHANGED <<spawnVars, versionVars, bumpVars, syncVars, childVars,
                 pathVars, pluginVars, parseVars, cmdVars, resyncVars>>

RunNext ==
  \/ RunBegin
  \/ \E w \in Workspaces : RunEnter(w)
  \/ \E w \in Workspaces, ok \in BOOLEAN : RunSpawnSettled(w, ok)
  \/ RunFinish

(***************************************************************************)
(* <strategy> option of the version command (command.ts 53-65).            *)
(***************************************************************************)
\* Property names every object literal inherits from Object.prototype.
ObjectPrototypeKeys ==
  {"constructor", "toString", "toLocaleString", "valueOf", "hasOwnProperty",
   "isPrototypeOf", "propertyIsEnumerable", "__proto__"}

\* Line 56: value in STRATEGIES.  The "in" operator finds own and inherited
\* property names of the object literal of lines 12-26.
InStrategies(value) ==
  /\ value.chars = <<>>
  /\ value.word \in STRATEGIES \cup ObjectPrototypeKeys

Digits == {"0", "1"}

\* Characters version texts are written with.
VersionChars == Digits \cup {".", "-", "a"}

\* The pieces of a text between occurrences of a separator.
RECURSIVE SplitOn(_, _)
SplitOn(text, sep) ==
  IF \A i \in 1..Len(text) : text[i] # sep THEN <<text>>
  ELSE LET i == CHOOSE k \in 1..Len(text) :
                  text[k] = sep /\ \A j \in 1..(k - 1) : text[j] # sep
       IN <<SubSeq(text, 1, i - 1)>>
            \o SplitOn(SubSeq(text, i + 1, Len(text)), sep)

\* semver: 0|[1-9]\d*
NumericIdentifier(t) ==
  /\ t # <<>>
  /\ \A i \in 1..Len(t) : t[i] \in Digits
  /\ Len(t) > 1 => t[1] # "0"

\* semver: a numeric identifier, or \d*[a-zA-Z-][a-zA-Z0-9-]*
PrereleaseIdentifier(t) ==
  \/ NumericIdentifier(t)
  \/ /\ t # <<>>
     /\ \A i \in 1..Len(t) : t[i] # "."
     /\ \E i \in 1..Len(t) : t[i] \notin Digits

\* semver: major.minor.patch of numeric identifiers.
MainVersion(t) ==
  LET parts == SplitOn(t, ".")
  IN Len(parts) = 3 /\ \A i \in 1..3 : NumericIdentifier(parts[i])

\* Line 61: new semver.SemVer(value) does not throw: an optional "v", the
\* main version and, after the first hyphen, dot-separated prerelease
\* identifiers.
ValidSemVer(value) ==
  /\ value.word \in {"", "v"}
  /\ LET t == value.chars
         hy == {i \in 1..Len(t) : t[i] = "-"}
     IN IF hy = {} THEN MainVersion(t)
        ELSE LET h == CHOOSE i \in hy : \A j \in hy : i <= j
                 pre == SplitOn(SubSeq(t, h + 1, Len(t)), ".")
             IN /\ MainVersion(SubSeq(t, 1, h - 1))
                /\ \A i \in 1..Len(pre) : PrereleaseIdentifier(pre[i])

NotParsed ==
  [called |-> FALSE, accepted |-> FALSE,
   strategy |-> [isString |-> TRUE, name |-> ""], error |-> ""]

\* parse (lines 53-65).
ParseResult(value) ==
  IF InStrategies(value)
  THEN [called |-> TRUE, accepted |-> TRUE,
        strategy |-> [isString |-> TRUE, name |-> value.word], error |-> ""]
  ELSE IF ValidSemVer(value)
  THEN [called |-> TRUE, accepted |-> TRUE,
        strategy |-> [isString |-> FALSE, name |-> "SemVer"], error |-> ""]
  ELSE [called |-> TRUE, accepted |-> FALSE,
        strategy |-> [isString |-> TRUE, name |-> ""],
        error |-> "invalid strategy"]

\* Words a strategy argument is written with.
StrategyWords ==
  STRATEGIES \cup ObjectPrototypeKeys \cup {"", "v", "latest", "Major"}

\* Command-line texts: a word, a text of version characters, or a word
\* followed by version characters.
StrategyArgs ==
  {[word |-> w, chars |-> <<>>] : w \in StrategyWords}
    \cup {[word |-> "", chars |-> c] : c \in SeqsUpTo(VersionChars, MaxChars)}
    \cup {[word |-> w, chars |-> c] :
            w \in {"", "v", "major", "toString"},
            c \in {<<"1", ".", "0", ".", "0">>, <<"1", ".", "0">>,
                   <<"1", ".", "0", ".", "0", "-", "a">>,
                   <<"1", ".", "0", ".", "0", "-", "0", "1">>,
                   <<"1", ".", "0", ".", "0", "-", "a", ".", "1">>}}

ParseIdle ==
  /\ parseArg = [word |-> "", chars |-> <<>>]
  /\ parseOut = NotParsed
  /\ parseEach = ""

ParseStart ==
  /\ parseArg \in StrategyArgs
  /\ parseOut = NotParsed
  /\ parseEach = ""

\* The command line is read: parse is called with the text of <strategy>.
ParseStrategy ==
  /\ ~parseOut.called
  /\ parseOut' = ParseResult(parseArg)
  /\ UNCHANGED <<parseArg, parseEach>>
  /\ UNCHANGED <<spawnVars, versionVars, bumpVars, syncVars, childVars,
                 pathVars, pluginVars, runVars, cmdVars, resyncVars>>

\* The action runs with the parsed option (lines 84, 94-115): it binds
\* "each" unless the strategy is 'sync'.
ParsedAction ==
  /\ parseOut.called /\ parseOut.accepted
  /\ parseEach = ""
  /\ parseEach' = IF RunsStrategyPhase(parseOut.strategy)
                  THEN Each(parseOut.strategy) ELSE "none"
  /\ UNCHANGED <<parseArg, parseOut>>
  /\ UNCHANGED <<spawnVars, versionVars, bumpVars, syncVars, childVars,
                 pathVars, pluginVars, runVars, cmdVars, resyncVars>>

ParseNext == ParseStrategy \/ ParsedAction

(***************************************************************************)
(* createCommand (core/wurk/src/command.ts 77-121).                        *)
(***************************************************************************)
\* The configurations init is called with; configuration c has root c and
\* workspaces c.
InitConfigs ==
  {[defined |-> TRUE, root |-> c, workspaces |-> c] : c \in 1..MaxConfigs}

\* let initConfig: InitConfig | undefined (line 85)
NoInitConfig == [defined |-> FALSE, root |-> None, workspaces |-> None]

\* new CommandContext({ result, root, workspaces, pm }) not constructed.
NoContext == [root |-> None, workspaces |-> None]

\* Lines 115-117: initConfig = newInitConfig
InitAssign(old, new) == new

\* Variant: the action does not look at initConfig.
ActionRunUnchecked(cfg, inits) ==
  [initsBefore |-> inits, error |-> "", hookCalls |-> 1,
   context |-> [root |-> cfg.root, workspaces |-> cfg.workspaces],
   state |-> "in hook"]

\* Lines 106-113, up to the await of the action hook.
ActionRun(cfg, inits) ==
  IF ~cfg.defined
  THEN [initsBefore |-> inits, error |-> "command not initialized",
        hookCalls |-> 0, context |-> NoContext, state |-> "rejected"]
  ELSE [initsBefore |-> inits, error |-> "", hookCalls |-> 1,
        context |-> [root |-> cfg.root, workspaces |-> cfg.workspaces],
        state |-> "in hook"]

CmdIdle ==
  /\ initConfig = NoInitConfig
  /\ initLog = <<>>
  /\ cmdRuns = <<>>

\* The factory callback has run (lines 84-119): nothing is initialized.
CmdStart == CmdIdle

\* init(newInitConfig)
CmdInit(new) ==
  /\ Len(initLog) < MaxInits
  /\ initConfig' = InitAssign(initConfig, new)
  /\ initLog' = Append(initLog, new)
  /\ UNCHANGED cmdRuns
  /\ UNCHANGED <<spawnVars, versionVars, bumpVars, syncVars, childVars,
                 pathVars, pluginVars, runVars, parseVars, resyncVars>>

\* The cli runs the action callback with a parse result.
CmdAction ==
  /\ Len(cmdRuns) < MaxRuns
  /\ cmdRuns' = Append(cmdRuns, ActionRun(initConfig, Len(initLog)))
  /\ UNCHANGED <<initConfig, initLog>>
  /\ UNCHANGED <<spawnVars, versionVars, bumpVars, syncVars, childVars,
                 pathVars, pluginVars, runVars, parseVars, resyncVars>>

\* await actionHook(context) settles (line 112).
CmdHookSettled(i, ok) ==
  /\ i \in 1..Len(cmdRuns)
  /\ cmdRuns[i].state = "in hook"
  /\ cmdRuns' = [cmdRuns EXCEPT
                   ![i].state = IF ok THEN "resolved" ELSE "rejected",
                   ![i].error = IF ok THEN "" ELSE "hook failed"]
  /\ UNCHANGED <<initConfig, initLog>>
  /\ UNCHANGED <<spawnVars, versionVars, bumpVars, syncVars, childVars,
                 pathVars, pluginVars, runVars, parseVars, resyncVars>>

CmdNext ==
  \/ \E new \in InitConfigs : CmdInit(new)
  \/ CmdAction
  \/ \E i \in 1..MaxRuns, ok \in BOOLEAN : CmdHookSettled(i, ok)

(***************************************************************************)
(* Specifications.                                                         *)
(***************************************************************************)
\* The functions of fnVars are not being called.
\* The functions of lateVars are not being called.
LateIdle == PluginIdle /\ RunIdle /\ ParseIdle /\ CmdIdle /\ ResyncIdle

FnIdle == BumpIdle /\ SyncIdle /\ ChildIdle /\ PathIdle /\ LateIdle

SpawnInit == SpawnIdle /\ VersionIdle /\ FnIdle

SpawnSpec == SpawnInit /\ [][SpawnNext]_vars

\* A step of the coordinator other than a request: the event loop runs a
\* reaction of a settled promise (the .then callback of
\* Promise.allSettled, the finally callbacks) or a launched child closes
\* or fails.
SpawnProgress ==
  \E o \in Ops : Launch(o) \/ (\E ok \in BOOLEAN : Close(o, ok)) \/ Finally(o)

\* While such a step is possible one is eventually taken; nothing obliges
\* a caller to request another spawn.
SpawnFairness == WF_vars(SpawnProgress)

SpawnLiveSpec == SpawnInit /\ [][SpawnNext]_vars /\ SpawnFairness

\* A repository of public workspaces managed by npm.
PublicNpm == isPrivate = [w \in Workspaces |-> FALSE] /\ pm = "npm"

VersionInit == VersionStart(VersionInputs) /\ PublicNpm /\ SpawnIdle /\ FnIdle

VersionSpec == VersionInit /\ [][VersionNext]_vars

DispatchInit == VersionStart(DispatchInputs) /\ PublicNpm /\ SpawnIdle /\ FnIdle

DispatchSpec == DispatchInit /\ [][VersionNext]_vars

\* 'version minor', with and without --changelog.
BumpInputs ==
  {<<[isString |-> TRUE, name |-> "minor"], opt>> :
     opt \in {"undefined", "true"}}

\* 'version minor' on a repository where any workspace may be private.
PrivateInit ==
  /\ VersionStart(BumpInputs)
  /\ isPrivate \in [Workspaces -> BOOLEAN]
  /\ pm = "npm"
  /\ SpawnIdle
  /\ FnIdle

PrivateSpec == PrivateInit /\ [][VersionNext]_vars

\* 'version minor' on a repository managed by any package manager.
PackageManagerInit ==
  /\ VersionStart(BumpInputs)
  /\ isPrivate = [w \in Workspaces |-> FALSE]
  /\ pm \in PackageManagers
  /\ SpawnIdle
  /\ FnIdle

PackageManagerSpec == PackageManagerInit /\ [][VersionNext]_vars

BumpInit ==
  /\ BumpStart
  /\ SyncIdle /\ ChildIdle /\ PathIdle /\ LateIdle
  /\ SpawnIdle /\ VersionIdle

BumpSpec == BumpInit /\ [][BumpNext]_vars

SyncInit ==
  /\ SyncStart
  /\ BumpIdle /\ ChildIdle /\ PathIdle /\ LateIdle
  /\ SpawnIdle /\ VersionIdle

SyncSpec == SyncInit /\ [][SyncNext]_vars

ChildInit ==
  /\ ChildStart
  /\ BumpIdle /\ SyncIdle /\ PathIdle /\ LateIdle
  /\ SpawnIdle /\ VersionIdle

ChildSpec == ChildInit /\ [][ChildNext]_vars

PathInit ==
  /\ PathStart
  /\ BumpIdle /\ SyncIdle /\ ChildIdle /\ LateIdle
  /\ SpawnIdle /\ VersionIdle

PathSpec == PathInit /\ [][PathNext]_vars

\* The functions of fnVars other than those of lateVars are not being
\* called.
EarlyIdle == BumpIdle /\ SyncIdle /\ ChildIdle /\ PathIdle

PluginInit ==
  PluginStart /\ RunIdle /\ ParseIdle /\ CmdIdle /\ ResyncIdle /\ EarlyIdle /\ SpawnIdle /\ VersionIdle

PluginSpec == PluginInit /\ [][PluginNext]_vars

\* The version command is not running.
VersionOff ==
  /\ strategy = [isString |-> TRUE, name |-> "sync"]
  /\ changelog = FALSE
  /\ isPrivate = [w \in Workspaces |-> FALSE]
  /\ selectedAtStart = {}
  /\ pc = "off"
  /\ sfe = [w \in Workspaces |-> "idle"]
  /\ invoked = [w \in Workspaces |-> <<>>]
  /\ modified = [w \in Workspaces |-> FALSE]
  /\ verChanged = [w \in Workspaces |-> FALSE]
  /\ synced = {}
  /\ wfe = [w \in Workspaces |-> "idle"]
  /\ gitQueried = [w \in Workspaces |-> FALSE]
  /\ sawDirty = [w \in Workspaces |-> FALSE]
  /\ manifestWritten = [w \in Workspaces |-> FALSE]
  /\ changelogWritten = [w \in Workspaces |-> FALSE]
  /\ status = [w \in Workspaces |-> "pending"]
  /\ detail = [w \in Workspaces |-> ""]
  /\ updateArgs = <<>>
  /\ error = ""

RunInit ==
  RunStart /\ VersionOff /\ PluginIdle /\ ParseIdle /\ CmdIdle /\ ResyncIdle
    /\ EarlyIdle /\ SpawnIdle

RunSpec == RunInit /\ [][RunNext]_vars

ParseInit ==
  ParseStart /\ PluginIdle /\ RunIdle /\ CmdIdle /\ ResyncIdle /\ EarlyIdle
    /\ SpawnIdle /\ VersionIdle

ParseSpec == ParseInit /\ [][ParseNext]_vars

CmdSpecInit ==
  CmdStart /\ PluginIdle /\ RunIdle /\ ParseIdle /\ ResyncIdle /\ EarlyIdle
    /\ SpawnIdle /\ VersionIdle

CmdSpec == CmdSpecInit /\ [][CmdNext]_vars

ResyncInit ==
  /\ ResyncStart
  /\ BumpIdle /\ ChildIdle /\ PathIdle
  /\ PluginIdle /\ RunIdle /\ ParseIdle /\ CmdIdle
  /\ SpawnIdle /\ VersionIdle

ResyncSpec == ResyncInit /\ [][ResyncNext]_vars

(***************************************************************************)
(* Properties of the spawn coordinator (checked under SpawnSpec).          *)
(***************************************************************************)

\* C1: the child of an exclusive spawn X is launched only when every spawn
\* that was requested earlier and was unsettled when X was requested has
\* settled (resolved or rejected).
C1_ExclusiveWaitsForInFlight ==
  \A x \in Ops :
    (excl[x] /\ Launched(x)) => \A y \in pendingAtReq[x] : Settled(y)

\* An exclusive spawn requested while two non-exclusive children were
\* running has launched its own child.
C1_Witness ==
  \E x \in Ops :
    /\ excl[x] /\ Launched(x)
    /\ \E y, z \in runningAtReq[x] : y # z /\ ~excl[y] /\ ~excl[z]

\* C2: a spawn W (exclusive or not) requested while the child of an
\* exclusive spawn X was running launches its child only after X settled,
\* whatever was requested in between.
C2_LaterSpawnWaitsForExclusive ==
  \A w \in Ops : \A x \in runningAtReq[w] :
    (excl[x] /\ Launched(w)) => Settled(x)

\* A non-exclusive W was requested while exclusive X ran and another
\* exclusive spawn had already replaced X as the recorded blocking
\* operation; W has launched.
C2_Witness ==
  \E w \in Ops : \E x \in runningAtReq[w] :
    /\ excl[x] /\ ~excl[w] /\ Launched(w)
    /\ blockAtReq[w] # x

\* C3: while the child of an exclusive spawn runs, no other child launched
\* through spawn runs.
C3_ExclusiveRunsAlone ==
  \A x, y \in Ops :
    (x # y /\ excl[x] /\ Running(x)) => ~Running(y)

\* An exclusive child runs after an earlier spawn it had to wait for, while
\* a later spawn is held back.
C3_Witness ==
  \E x, y, z \in Ops :
    /\ excl[x] /\ Running(x)
    /\ y \in pendingAtReq[x] /\ Settled(y)
    /\ opState[z] = "waiting"

\* C4: a non-exclusive spawn waits for nothing but the blocking operation
\* recorded at its request: once that one has settled (or when none was
\* recorded) its launch is possible, whatever non-exclusive spawns are in
\* flight.
C4_NonExclusiveWaitsOnlyForBlocking ==
  \A w \in Ops :
    (/\ ~excl[w]
     /\ opState[w] = "waiting"
     /\ blockAtReq[w] = None \/ Settled(blockAtReq[w]))
      => ENABLED Launch(w)

\* Every requested spawn is non-exclusive and all their children run at
\* the same time, one of them requested while another was running.
C4_Witness ==
  /\ Cardinality({w \in Ops : ~excl[w] /\ Running(w)}) >= 3
  /\ \E w \in Ops : Running(w) /\ blockAtReq[w] = None /\ runningAtReq[w] # {}

\* The exclusive spawn requested last.
LatestExclusive ==
  LET E == {y \in Ops : Requested(y) /\ excl[y]}
  IN  IF E = {} THEN None ELSE CHOOSE y \in E : \A z \in E : z <= y

\* C5 as stated: an exclusive spawn is the recorded blocking operation only
\* once everything in flight at its request has settled, and it is the
\* recorded one for as long as its child runs.
C5_Original ==
  \A x \in Ops :
    excl[x] =>
      /\ (blocking = x => \A y \in pendingAtReq[x] : Settled(y))
      /\ (Running(x) => blocking = x)

\* C5 (amended): an exclusive spawn is recorded as the blocking operation
\* by its request itself, and as long as any exclusive spawn is unsettled
\* the recorded blocking operation is the exclusive spawn requested last.
C5_BlockingIsLatestExclusive ==
  \A x \in Ops :
    (excl[x] /\ Requested(x) /\ ~Settled(x)) =>
      /\ blocking = LatestExclusive
      /\ ~Settled(blocking)

\* An exclusive spawn is recorded while a spawn in flight at its request is
\* still running, and another one has been replaced while its child runs.
C5_Witness ==
  \E x, y \in Ops :
    /\ excl[x] /\ excl[y] /\ x < y
    /\ Running(x)
    /\ blocking = y /\ opState[y] = "waiting"

(***************************************************************************)
(* Properties of the version command (checked under VersionSpec, C10 under *)
(* DispatchSpec).                                                          *)
(***************************************************************************)
WriteCallbackRunning(w) == wfe[w] \in {"git", "writeConfig", "writeChangelog"}

C6_Step ==
  /\ (sfe' # sfe \/ invoked' # invoked) => (pc = "strategy" /\ pc' = "strategy")
  /\ (pc = "include" /\ pc' # "include") =>
       \A w \in Workspaces : sfe[w] # "running"
  /\ (synced' # synced) => (pc = "sync" /\ selected' = selected)
  /\ (\/ wfe' # wfe
      \/ gitQueried' # gitQueried
      \/ manifestWritten' # manifestWritten
      \/ changelogWritten' # changelogWritten) =>
       (pc = "write" /\ pc' = "write" /\ selected \subseteq synced)
  /\ (updateArgs' # updateArgs) =>
       \A w \in Workspaces : ~WriteCallbackRunning(w)

\* C6: the phases of a run follow in a fixed order: strategy functions are
\* called and settle only before includeDependents is applied, which
\* happens with no strategy call pending; sync steps happen only after it;
\* a write-phase callback starts or proceeds only once every selected
\* workspace has been synced; and 'npm update' is spawned only when no
\* write-phase callback is still running.
C6_PhaseOrder == [][C6_Step]_vars

\* A run with a strategy phase that wrote a manifest and finished after
\* 'npm update'.
C6_Witness ==
  /\ pc = "done"
  /\ updateArgs # <<>>
  /\ \E w \in Workspaces : invoked[w] # <<>> /\ manifestWritten[w]
  /\ selected # selectedAtStart

DirtyError == "versioning requires a clean git repository"

\* C7: when the write of workspace b fails on a dirty git tree, no selected
\* dependent of b is written and each has status skipped; the run never
\* reaches 'npm update' and ends with the error, and every selected
\* workspace that neither is dirty nor has a dirty ancestor has by then had
\* its write callback run to the end (written if modified).
C7_DirtyFailurePrunesDependents ==
  \A b \in Workspaces :
    sawDirty[b] =>
      /\ \A a \in selected :
           b \in TransDeps(a) =>
             /\ ~manifestWritten[a] /\ ~changelogWritten[a]
             /\ ~gitQueried[a]
             /\ status[a] = "skipped"
      /\ pc \in {"write", "error"}
      /\ updateArgs = <<>>
      /\ pc = "error" =>
           /\ error = DirtyError
           /\ \A c \in selected :
                (/\ ~sawDirty[c]
                 /\ \A d \in TransDeps(c) \cap selected : ~sawDirty[d]) =>
                  /\ wfe[c] = "ok"
                  /\ modified[c] => (manifestWritten[c] /\ status[c] = "success")

\* b failed on a dirty tree, its modified dependent a was pruned, the
\* independent modified c was written, and the run ended with the error.
C7_Witness ==
  \E a, b, c \in Workspaces :
    /\ sawDirty[b] /\ b \in TransDeps(a) /\ a \in selected /\ modified[a]
    /\ c # b /\ b \notin TransDeps(c) /\ c \notin TransDeps(b)
    /\ modified[c] /\ manifestWritten[c]
    /\ pc = "error"

\* C8: a modified workspace whose git tree is found dirty throws the
\* clean-repository error with nothing persisted: no manifest, no
\* changelog, never status success.
C8_DirtyWritesNothing ==
  \A w \in Workspaces :
    sawDirty[w] =>
      /\ modified[w]
      /\ wfe[w] = "threw"
      /\ error = DirtyError
      /\ ~manifestWritten[w] /\ ~changelogWritten[w]
      /\ status[w] # "success"

\* A dirty workspace has thrown in a run that writes changelogs, and the
\* run has ended with the error.
C8_Witness ==
  \E w \in Workspaces :
    sawDirty[w] /\ wfe[w] = "threw" /\ changelog /\ pc = "error"

\* C9: a workspace whose write callback ran on an unmodified config is
\* skipped with detail 'no modifications' and nothing else: no git query,
\* no manifest or changelog write, not named to 'npm update'.
C9_UnmodifiedIsOnlySkipped ==
  \A w \in Workspaces :
    (~modified[w] /\ wfe[w] \notin {"idle", "skipped"}) =>
      /\ wfe[w] = "ok"
      /\ status[w] = "skipped" /\ detail[w] = "no modifications"
      /\ ~gitQueried[w]
      /\ ~manifestWritten[w] /\ ~changelogWritten[w]
      /\ \A i \in DOMAIN updateArgs : w \notin updateArgs[i].names

\* An unmodified selected workspace was skipped in a run that spawned
\* 'npm update' for another workspace.
C9_Witness ==
  /\ pc = "done"
  /\ updateArgs # <<>>
  /\ \E w \in selected : ~modified[w] /\ wfe[w] = "ok"

\* The strategy function the strategy argument stands for.
C10_Expected ==
  IF ~strategy.isString THEN "literal"
  ELSE IF strategy.name \in {"auto", "promote"} THEN strategy.name
  ELSE "bump"

\* C10: with strategy 'sync' no strategy function is ever called; with any
\* other strategy only the function the argument stands for is called, at
\* most once per workspace, and when the strategy phase is over it has been
\* called exactly once on each workspace of the selection and on no other.
C10_OneStrategyPerWorkspace ==
  IF strategy.isString /\ strategy.name = "sync"
  THEN \A w \in Workspaces : invoked[w] = <<>>
  ELSE /\ \A w \in Workspaces :
            /\ Len(invoked[w]) <= 1
            /\ \A i \in DOMAIN invoked[w] : invoked[w][i] = C10_Expected
            /\ w \notin selectedAtStart => invoked[w] = <<>>
       /\ (pc \in {"include", "sync", "write", "update", "done"}) =>
            \A w \in selectedAtStart : Len(invoked[w]) = 1

\* The promote strategy has been applied to the selection and the sync
\* phase runs on a selection enlarged by a dependent.
C10_Witness ==
  /\ pc = "sync"
  /\ strategy = [isString |-> TRUE, name |-> "promote"]
  /\ \E w \in selectedAtStart : invoked[w] = <<"promote">>
  /\ selected # selectedAtStart

(***************************************************************************)
(* Properties of the version command on private workspaces (checked under  *)
(* PrivateSpec).                                                           *)
(***************************************************************************)
\* C11: in the strategy phase a private workspace is skipped: no strategy
\* function is called on it and its config version stays the version of
\* the workspace.  The callback of lines 117-123 only logs "skipping
\* workspace (private)" and then calls each(workspace), so this fails.
C11_PrivateIsSkipped ==
  \A w \in Workspaces :
    isPrivate[w] => invoked[w] = <<>> /\ ~verChanged[w]

(***************************************************************************)
(* Properties of bump (checked under BumpSpec).                            *)
(***************************************************************************)
\* v is later than u in semver precedence, for a release version v.
ReleaseAfter(v, u) ==
  \/ v.major > u.major
  \/ v.major = u.major /\ v.minor > u.minor
  \/ v.major = u.major /\ v.minor = u.minor /\ v.patch > u.patch
  \/ v.major = u.major /\ v.minor = u.minor /\ v.patch = u.patch
       /\ u.pre # <<>>

\* C12: bump on a workspace without version is a no-op for every release
\* type and preid: the config keeps its version and isModified stays
\* false.  On a workspace with a version it sets the config version to the
\* semver increment of the workspace version by the release type: for
\* major, minor and patch a release version later than the current one,
\* whatever the preid; for the pre* types a prerelease that carries the
\* preid when one is given.
C12_BumpNeedsVersion ==
  bumpConfig.called =>
    LET v == bumpArgs.version
        t == bumpArgs.releaseType
        c == bumpConfig
    IN IF ~HasVersion(v)
       THEN c.version = v /\ ~c.isModified
       ELSE /\ c.isModified
            /\ c.version = SemVerInc(v, t, bumpArgs.preid)
            /\ t \in {"major", "minor", "patch"} =>
                 /\ c.version.pre = <<>>
                 /\ ReleaseAfter(c.version, v)
                 /\ c.version = SemVerInc(v, t, "")
            /\ t \in {"premajor", "preminor", "prepatch", "prerelease"} =>
                 /\ c.version.pre # <<>>
                 /\ bumpArgs.preid # "" =>
                      c.version.pre[1] = Str(bumpArgs.preid)

\* bump was called with a pre* release type and a preid on a workspace
\* without version.
C12_Witness ==
  /\ bumpConfig.called
  /\ ~HasVersion(bumpArgs.version)
  /\ bumpArgs.releaseType = "premajor"
  /\ bumpArgs.preid = "beta"

(***************************************************************************)
(* Properties of getUpdatePatches (checked under SyncSpec).                *)
(***************************************************************************)
\* C13: a rewritten dependency range is prefix + newVersion: the operator
\* of the existing range when that range is one of =, ^, ~, >, >= followed
\* by a full or partial version, and ^ when the version has no operator in
\* front; the version that follows is the recorded new version in full.
C13_PrefixPreserved ==
  syncPatch.called /\ syncPatch.patched =>
    LET r == syncArgs.depRange
        n == syncPatch.range
    IN /\ n.kind = "simple" /\ n.parts = 3
       /\ n.ver = syncArgs.update
       /\ n.op \in {"=", "^", "~", ">", ">="}
       /\ r.kind = "simple" /\ r.op # "" => n.op = r.op
       /\ r.kind = "simple" /\ r.op = "" => n.op = "^"

\* ~1.0.1 was rewritten to ~1.2.0.
C13_Witness ==
  /\ syncPatch.called /\ syncPatch.patched
  /\ syncArgs.depRange = SimpleRange("~", Release(1, 0, 1), 3)
  /\ syncArgs.update = Release(1, 2, 0)
  /\ syncPatch.range = SimpleRange("~", Release(1, 2, 0), 3)

\* C14: for a range that is managed (not '*', 'x' or 'file:') and a
\* recorded update: without strict, the range is left as it is when the
\* new version satisfies the range and also the range ~minVersion(range);
\* with strict, the range is rewritten to prefix + newVersion whenever
\* that text differs from the range.
C14_ChurnSuppression ==
  LET r == syncArgs.depRange
      u == syncArgs.update
  IN syncPatch.called /\ HasVersion(u)
       /\ r.kind \notin {"star", "x", "file"} =>
       /\ ~syncArgs.strict /\ Satisfies(u, r)
            /\ Satisfies(u, SimpleRange("~", MinVersion(r), 3)) =>
            ~syncPatch.patched /\ syncPatch.range = r
       /\ syncArgs.strict /\ SimpleRange(Prefix(r), u, 3) # r =>
            /\ syncPatch.patched
            /\ syncPatch.range = SimpleRange(Prefix(r), u, 3)

\* ^1.2.0 with new version 1.2.2, not strict, stays ^1.2.0.
C14_Witness ==
  /\ syncPatch.called
  /\ ~syncArgs.strict
  /\ syncArgs.depRange = SimpleRange("^", Release(1, 2, 0), 3)
  /\ syncArgs.update = Release(1, 2, 2)
  /\ ~syncPatch.patched
  /\ syncPatch.range = syncArgs.depRange

\* C15: when the version of the dependent workspace changes in the same
\* run, or the dependency is private, a managed range that differs from
\* prefix + newVersion is rewritten even though the new version satisfies
\* it.  getUpdatePatches receives neither fact and ignores the update
\* whenever strict is off, so this fails.
C15_SuppressionOverridden ==
  LET r == syncArgs.depRange
      u == syncArgs.update
  IN syncPatch.called /\ HasVersion(u)
       /\ r.kind \notin {"star", "x", "file"}
       /\ NewDepRange(r, u) # r
       /\ (syncArgs.dependentChanging \/ syncArgs.dependencyPrivate) =>
       syncPatch.patched

(***************************************************************************)
(* Properties of the write phase and of the update that follows it.        *)
(***************************************************************************)
\* C16: a workspace whose write succeeded has status success and the
\* detail 'dependency updates' exactly when its config version is still
\* the version of the workspace, and the version transition otherwise;
\* the status is success only once the manifest is written, and the
\* changelog too when changelogs are enabled, and it is success from then
\* on.  (Checked under VersionSpec.)
C16_SuccessAfterWrite ==
  \A w \in Workspaces :
    LET written == manifestWritten[w] /\ (changelog => changelogWritten[w])
    IN /\ status[w] = "success" <=> written
       /\ status[w] = "success" =>
            /\ ~verChanged[w] <=> detail[w] = "dependency updates"
            /\ verChanged[w] <=> detail[w] = "version -> newVersion"

\* With changelogs enabled, one workspace succeeded with a new version and
\* another with dependency updates only.
C16_Witness ==
  /\ changelog
  /\ \E w, v \in Workspaces :
       /\ status[w] = "success" /\ detail[w] = "dependency updates"
       /\ changelogWritten[w]
       /\ status[v] = "success" /\ detail[v] = "version -> newVersion"

\* C17: once the write phase has completed without error, the update
\* command of the repository's package manager has been spawned exactly
\* once, with the names of exactly the workspaces whose config is modified;
\* it is not spawned when no config is modified, nor when the write phase
\* raised an error, nor before the write phase is over.  The command
\* spawned is npm whatever the package manager, so this fails.  (Checked
\* under PackageManagerSpec.)
C17_UpdateOfOwnPackageManager ==
  LET names == {w \in Workspaces : modified[w]}
  IN /\ pc \in {"update", "done"} \/ error = "npm update failed" =>
          updateArgs = IF names = {} THEN <<>>
                       ELSE <<[command |-> PackageManagerCommand(pm),
                               names |-> names]>>
     /\ ~(pc \in {"update", "done"} \/ error = "npm update failed") =>
          updateArgs = <<>>

Terminal == {"success", "skipped", "failed"}

C18_Step ==
  \A w \in Workspaces : status[w] \in Terminal => status'[w] = status[w]

\* C18: a status that has become success, skipped or failed is not changed
\* by any later step of the run, neither to another value nor back to
\* pending.  (Checked under VersionSpec.)
C18_StatusIsTerminal == [][C18_Step]_vars

\* The run ended with one workspace skipped and another written.
C18_Witness ==
  /\ pc = "done"
  /\ \E w, v \in Workspaces :
       /\ status[w] = "skipped" /\ detail[w] = "no modifications"
       /\ status[v] = "success"

(***************************************************************************)
(* Properties of the promise of spawnAsync (checked under ChildSpec).      *)
(***************************************************************************)
\* The 'close' event of a child that was launched (no 'error' event came
\* first), if it has been emitted.
ClosedAfterRunning ==
  Len(childEvents) = 1 /\ childEvents[1].type = "close"

\* C19: when a launched child closes, its exit code (1 if it has none)
\* decides the promise: a non-zero code rejects with a SpawnExitCodeError
\* made from the command, the exit code and the signal, unless
\* allowNonZeroExitCode is set, and then resolves with ok false; the
\* promise resolves with ok true exactly when the exit code is 0.
C19_OutcomeByExitCode ==
  ClosedAfterRunning =>
    LET e == childEvents[1]
        code == IF e.exitCode.null THEN 1 ELSE e.exitCode.code
        p == childPromise
    IN /\ code # 0 /\ ~childOptions.allowNonZeroExitCode =>
            /\ p.state = "rejected" /\ p.kind = "SpawnExitCodeError"
            /\ p.cmd = childOptions.cmd
            /\ p.exitCode = code
            /\ p.signalCode = e.signalCode
       /\ code # 0 /\ childOptions.allowNonZeroExitCode =>
            /\ p.state = "resolved" /\ ~p.ok
            /\ p.exitCode = code /\ p.signalCode = e.signalCode
       /\ (p.state = "resolved" /\ p.ok) <=> code = 0

\* A child killed by a signal closed without exit code and the promise
\* rejected with exit code 1.
C19_Witness ==
  /\ ClosedAfterRunning
  /\ childEvents[1].exitCode.null
  /\ childEvents[1].signalCode = "SIGTERM"
  /\ childPromise.state = "rejected"
  /\ childPromise.exitCode = 1

(***************************************************************************)
(* Properties of the PATH of the child (checked under PathSpec).           *)
(***************************************************************************)
\* The segments of the non-empty texts of a sequence, in order.
RECURSIVE Segments(_)
Segments(texts) ==
  IF texts = <<>> THEN <<>> ELSE Head(texts) \o Segments(Tail(texts))

\* The PATH that is inherited or overridden: env.PATH of the options, else
\* of the default options, else of the process; nothing if undefined.
EffectivePath ==
  IF pathArgs.envPath.defined THEN pathArgs.envPath.text
  ELSE IF pathArgs.defaultEnvPath.defined THEN pathArgs.defaultEnvPath.text
  ELSE pathArgs.processPath.text

\* The statement as first made: the paths entries come before the
\* inherited or overridden PATH.
C20_Original ==
  childPath # <<>> =>
    childPath = <<"execdir", pathArgs.cwd, "node_modules/.bin">>
                  \o Segments(pathArgs.defaultPaths \o pathArgs.paths)
                  \o EffectivePath

\* C20: the PATH of the child is the directory of the runtime executable,
\* the local-bin path of the working directory, the inherited or
\* overridden PATH, and then the caller's paths entries (those of the
\* default options first), in that order, joined with the delimiter; empty
\* entries leave no empty segment.
C20_PathOrder ==
  childPath # <<>> =>
    /\ childPath = <<"execdir", pathArgs.cwd, "node_modules/.bin">>
                     \o EffectivePath
                     \o Segments(pathArgs.defaultPaths \o pathArgs.paths)
    /\ \A i \in DOMAIN childPath : childPath[i] # ""

\* A call with an inherited PATH, two paths entries and an empty one.
C20_Witness ==
  /\ pathArgs.paths = <<<<"/p">>, <<>>>>
  /\ pathArgs.defaultPaths = <<<<"/q">>>>
  /\ ~pathArgs.envPath.defined /\ ~pathArgs.defaultEnvPath.defined
  /\ childPath = <<"execdir", "/repo", "node_modules/.bin", "/usr/bin",
                   "/bin", "/q", "/p">>

(***************************************************************************)
(* Properties of loadCommandPlugins (checked under PluginSpec).            *)
(***************************************************************************)
\* C21: loadCommandPlugins never rejects, whatever the plugins do; when it
\* resolves, the result holds exactly the commands of the valid packages
\* among those it loads, once each and in the order of the package ids,
\* and an error was logged for exactly the other packages it loads.
C21_FailingPluginsAreLeftOut ==
  /\ plugResult.state # "rejected"
  /\ plugResult.state = "resolved" =>
       LET loaded == {p \in Packages :
                        plugSource[p] \in {"dependency", "explicit", "both"}}
           valid == {p \in loaded : plugKind[p] = "valid"}
           c == plugResult.commands
       IN /\ {c[i] : i \in DOMAIN c} = valid
          /\ Len(c) = Cardinality(valid)
          /\ \A i, j \in DOMAIN c : i < j => c[i] < c[j]
          /\ plugLogged = loaded \ valid

\* The first package threw in its factory, the second is valid and is the
\* result.
C21_Witness ==
  /\ plugResult.state = "resolved"
  /\ plugKind[1] = "factory throws" /\ plugSource[1] = "both"
  /\ plugKind[2] = "valid" /\ plugSource[2] = "dependency"
  /\ plugResult.commands = <<2>>
  /\ plugLogged = {1}

(***************************************************************************)
(* Properties of the run command (checked under RunSpec).                  *)
(***************************************************************************)
\* The workspaces the script is to be run in.
WithScript == {w \in selected : scriptDef[w] = "string"}

\* C22: the run command spawns the package manager's 'run <script>' only
\* for selected workspaces whose manifest holds the script as a string,
\* once each, and when it completes without error it has done so for all
\* of them; a workspace without the script is passed over without error;
\* with a package manager the command does not support it fails with
\* 'unsupported package manager' and spawns nothing.
C22_RunsWhereScriptExists ==
  /\ \A w \in Workspaces :
       /\ runSpawns[w] # <<>> =>
            /\ w \in WithScript
            /\ runSpawns[w] =
                 <<[command |-> IF pm = "yarn-classic" THEN "yarn" ELSE pm,
                    args |-> <<"run", "--", "script">>]>>
       /\ rfe[w] = "threw" => w \in WithScript
       /\ w \in selected \ WithScript =>
            rfe[w] \in {"idle", "ok", "skipped"}
  /\ runPc = "done" => \A w \in WithScript : runSpawns[w] # <<>>
  /\ runError # "" =>
       \/ pm \notin {"npm", "pnpm", "yarn", "yarn-classic"}
       \/ \E w \in WithScript : rfe[w] = "threw"
  /\ pm \notin {"npm", "pnpm", "yarn", "yarn-classic"} =>
       /\ \A w \in Workspaces : runSpawns[w] = <<>> /\ rfe[w] = "idle"
       /\ runPc \in {"start", "error"}
       /\ runPc = "error" => runError = "unsupported package manager"

\* The command completed: the script ran in one workspace and another
\* selected workspace, which has no such script, was passed over.
C22_Witness ==
  /\ runPc = "done" /\ runError = ""
  /\ \E w, v \in selected :
       /\ scriptDef[w] = "string" /\ runSpawns[w] # <<>>
       /\ scriptDef[v] = "missing" /\ runSpawns[v] = <<>> /\ rfe[v] = "ok"

(***************************************************************************)
(* Properties of the <strategy> option (checked under ParseSpec).          *)
(***************************************************************************)
\* The ten strategies the command documents.
NamedStrategy ==
  /\ parseArg.chars = <<>>
  /\ parseArg.word \in {"major", "minor", "patch", "premajor", "preminor",
                        "prepatch", "prerelease", "auto", "promote", "sync"}

\* C23: the strategy argument is accepted exactly when it is one of the
\* ten named strategies or a valid semantic version; every other text is
\* rejected with 'invalid strategy' and no strategy function is bound for
\* it.
C23_StrategyAcceptedIffKnown ==
  parseOut.called =>
    /\ parseOut.accepted <=> (NamedStrategy \/ ValidSemVer(parseArg))
    /\ ~(NamedStrategy \/ ValidSemVer(parseArg)) =>
         /\ parseOut.error = "invalid strategy"
         /\ parseEach = ""

(***************************************************************************)
(* Progress of the spawn coordinator (checked under SpawnLiveSpec).        *)
(***************************************************************************)
\* C24: the spawn coordinator never deadlocks: if every launched child
\* eventually closes or errors, every requested spawn eventually launches
\* its child and settles, also when operations it waited for failed.
C24_EveryRequestSettles ==
  []<>(\A o \in Ops : Requested(o) => Launched(o) /\ Settled(o))

\* An exclusive spawn is waiting for an operation that has just failed.
C24_Witness ==
  \E o, p \in Ops :
    /\ excl[o] /\ opState[o] = "waiting"
    /\ p \in waitFor[o] /\ opState[p] = "rejected"

(***************************************************************************)
(* Consistency of the spawn registry (checked under SpawnSpec).            *)
(***************************************************************************)
\* The recorded blocking operation is in flight, and nothing is left when
\* every requested spawn has settled and its finally callbacks have run.
C25_Registry ==
  /\ blocking # None => blocking \in all /\ opState[blocking] # "done"
  /\ all = {o \in Ops : Requested(o) /\ opState[o] # "done"}
  /\ (\A o \in Ops : Requested(o) => opState[o] = "done") =>
       all = {} /\ blocking = None

\* The finally callbacks of a settling spawn change the blocking reference
\* only from that spawn to none; no other step removes it.
C25_Step ==
  /\ \A o \in Ops :
       opState[o] \in {"resolved", "rejected"} /\ opState'[o] = "done" =>
         /\ blocking = o => excl[o] /\ blocking' = None
         /\ blocking # o => blocking' = blocking
  /\ blocking' # blocking =>
       \/ \E o \in Ops : opState[o] = "idle" /\ excl'[o] /\ blocking' = o
       \/ \E o \in Ops : opState[o] # "done" /\ opState'[o] = "done"

\* C25: the spawn registry stays consistent: a recorded blocking operation
\* is a member of the in-flight set and its finally callbacks have not run;
\* a settling exclusive spawn clears the blocking reference only if it is
\* still the recorded one; and once every requested spawn has settled and
\* been cleaned up the in-flight set is empty and no blocking operation is
\* recorded.
C25_RegistryConsistent == []C25_Registry /\ [][C25_Step]_vars

\* An exclusive spawn has settled and been cleaned up while a later
\* exclusive spawn is the recorded blocking operation.
C25_Witness ==
  \E o, q \in Ops :
    /\ excl[o] /\ opState[o] = "done"
    /\ o < q /\ blocking = q /\ q \in all

(***************************************************************************)
(* Properties of createCommand (checked under CmdSpec).                    *)
(***************************************************************************)
\* C26: a command created with createCommand follows an init-before-action
\* protocol: a run of its action before init was called fails with
\* 'command not initialized' and does not call the action hook; a run after
\* init calls the hook once, with a context built from the root and the
\* workspaces given to the most recent call of init.
C26_InitBeforeAction ==
  \A i \in 1..Len(cmdRuns) :
    LET r == cmdRuns[i] IN
    IF r.initsBefore = 0
    THEN /\ r.error = "command not initialized"
         /\ r.hookCalls = 0
         /\ r.state = "rejected"
    ELSE /\ r.hookCalls = 1
         /\ r.error # "command not initialized"
         /\ r.context = [root |-> initLog[r.initsBefore].root,
                         workspaces |-> initLog[r.initsBefore].workspaces]

\* A run before init failed, and a run after two calls of init with
\* different configurations called the hook.
C26_Witness ==
  \E i, j \in 1..Len(cmdRuns) :
    /\ cmdRuns[i].initsBefore = 0 /\ cmdRuns[i].state = "rejected"
    /\ cmdRuns[j].initsBefore = 2 /\ cmdRuns[j].hookCalls = 1
    /\ initLog[1] # initLog[2]

(***************************************************************************)
(* Properties of a repeated range synchronisation (checked under           *)
(* ResyncSpec).                                                            *)
(***************************************************************************)
\* C27: range synchronisation is idempotent: once the patch of
\* getUpdatePatches is applied, a second call with the same recorded
\* update and the same strict setting returns no patch, whatever the
\* existing range was; and an entry with no recorded update, a wildcard
\* range ('*', 'x') or a 'file:' range is never patched.  A recorded
\* version with build metadata makes this fail: the patched range is not
\* matched by the expression of line 39.
C27_SecondCallReturnsNoPatch ==
  /\ syncAgain.called =>
       ~syncAgain.patched /\ syncAgain.range = syncPatch.range
  /\ syncPatch.called
       /\ (~HasVersion(syncArgs.update)
             \/ syncArgs.depRange.kind \in {"star", "x", "file"}) =>
       ~syncPatch.patched /\ syncPatch.range = syncArgs.depRange
====
